---- MODULE Spec2Model ----
(***************************************************************************)
(* Duplicate-function detector and consolidation staging scripts:          *)
(*   scripts/dedupe.py, scripts/apply_consolidation.py,                    *)
(*   scripts/auto_consolidate.py.                                          *)
(*                                                                         *)
(* A Python str is a sequence of one-character strings, so that strip,     *)
(* split, the regular expressions and the f-strings of the scripts are     *)
(* computed character by character as the scripts compute them.            *)
(***************************************************************************)
EXTENDS Integers, Sequences, FiniteSets, TLC

VARIABLES
    \* scan_file applied to one file (dedupe.py:33-64)
    sf_path, sf_lines, sf_results, sf_pc,
    sf_i, sf_j,  \* the indices i and j of its two while loops, 0-based as in the code
    sf_tests,    \* per line, what the tests of lines 41-44 and 52-57 give for it
    \* main of dedupe.py (dedupe.py:66-93)
    tree,        \* what os.walk(ROOT) yields: per directory, its path and its files
    walk_i,      \* the directory the for loop of line 68 is at
    scanned,     \* the paths scan_file was called with (line 75), in order
    candidates,  \* the defaultdict of line 67, in insertion order
    stdout,      \* the lines printed, one per print call
    dup_count, scan_pc, scan_exit,
    scan_runs,       \* the scans of the tree started so far
    prev_candidates, \* candidates as the scan before this one left it
    prev_stdout,     \* the lines the scan before this one printed
    \* main of apply_consolidation.py (apply_consolidation.py:34-96)
    report,             \* the records of dedupe_candidates.json
    report_readable,    \* whether open and json.load of lines 40-41 succeed on it
    plan_candidates,    \* candidates, once json.load returned
    plan_i,             \* the record the for loop of line 48 is at
    canonical,          \* the local of line 56, as the last iteration set it
    consolidation_plan, \* the dict of line 46, in insertion order
    plan_stdout,        \* the lines printed, one per print call
    plan_pc, plan_exit,
    \* auto_consolidate.py (auto_consolidate.py:18-82)
    orch_outcome,    \* how the dedupe.py subprocess of line 21 ends, and its output
    orch_text,       \* text of main, line 75
    orch_candidates, \* candidates of main, line 76
    report_file,     \* the text of REPORT_DIR/dedupe_candidates.json (empty: no file)
    stubs,           \* the files of STUBS_DIR: file name -> text
    stub_args,       \* the candidates create_stubs was last called with
    orch_steps,      \* the calls main has completed in this run, in order
    orch_runs,       \* the runs started so far
    orch_pc, orch_exit

sfVars == <<sf_path, sf_lines, sf_results, sf_pc, sf_i, sf_j, sf_tests>>
rescanVars == <<scan_runs, prev_candidates, prev_stdout>>
scanVars == <<tree, walk_i, scanned, candidates, stdout, dup_count, scan_pc, scan_exit,
              rescanVars>>
planVars == <<report, report_readable, plan_candidates, plan_i, canonical, consolidation_plan,
              plan_stdout, plan_pc, plan_exit>>
orchVars == <<orch_outcome, orch_text, orch_candidates, report_file, stubs, stub_args,
              orch_steps, orch_runs, orch_pc, orch_exit>>
vars == <<sfVars, scanVars, planVars, orchVars>>

(***************************************************************************)
(* Bounds of the model.                                                    *)
(***************************************************************************)
\* longest file, in lines, given to scan_file on its own
MaxLines == 3
\* most files in the tree that main of dedupe.py walks
MaxFiles == 3
\* most occurrences in a record of the report
MaxOccs == 3
\* most runs of auto_consolidate.py, or calls of create_stubs, in a row
MaxRuns == 2
\* most scans of one unchanged tree in a row
MaxScans == 2

(***************************************************************************)
(* Characters and str methods.                                             *)
(***************************************************************************)
LowerLetters ==
    <<"a","b","c","d","e","f","g","h","i","j","k","l","m",
      "n","o","p","q","r","s","t","u","v","w","x","y","z">>
UpperLetters ==
    <<"A","B","C","D","E","F","G","H","I","J","K","L","M",
      "N","O","P","Q","R","S","T","U","V","W","X","Y","Z">>
Digits == <<"0","1","2","3","4","5","6","7","8","9">>
Punctuation ==
    <<" ","\t","\n","\r","_",".","/",":","-","(",")","{","}","<",">","=","+","*",
      "#","'","\"",",","[","]","!">>
\* every character the model's strings are written with
Alphabet == LowerLetters \o UpperLetters \o Digits \o Punctuation

Range(f) == {f[x] : x \in DOMAIN f}
\* str.isspace, restricted to Alphabet
Whitespace == {" ", "\t", "\n", "\r"}
\* the class [a-zA-Z0-9_] of the PATTERNS
WordChars == Range(LowerLetters) \cup Range(UpperLetters) \cup Range(Digits) \cup {"_"}
\* str.isalnum, restricted to Alphabet
IsAlnum(ch) == ch \in Range(LowerLetters) \cup Range(UpperLetters) \cup Range(Digits)

\* s[i:] of Python, for a 1-based i
From(s, i) == SubSeq(s, i, Len(s))

RECURSIVE lstrip(_)
lstrip(s) ==
    IF s # <<>> /\ s[1] \in Whitespace THEN lstrip(Tail(s)) ELSE s

RECURSIVE rstrip(_)
rstrip(s) ==
    IF s # <<>> /\ s[Len(s)] \in Whitespace THEN rstrip(SubSeq(s, 1, Len(s) - 1)) ELSE s

\* str.strip()
strip(s) == rstrip(lstrip(s))

\* str.startswith(p)
startswith(s, p) == Len(s) >= Len(p) /\ SubSeq(s, 1, Len(p)) = p

\* str.endswith(p)
endswith(s, p) == Len(s) >= Len(p) /\ SubSeq(s, Len(s) - Len(p) + 1, Len(s)) = p

\* p in s
Contains(s, p) ==
    \E i \in 1..(Len(s) - Len(p) + 1) : SubSeq(s, i, i + Len(p) - 1) = p

\* s.count(ch) for a one-character ch
count(s, ch) == Cardinality({i \in 1..Len(s) : s[i] = ch})

\* str.lower(), character by character
LowerChar(ch) ==
    IF ch \in Range(UpperLetters)
    THEN LowerLetters[CHOOSE i \in 1..Len(UpperLetters) : UpperLetters[i] = ch]
    ELSE ch
lower(s) == [i \in 1..Len(s) |-> LowerChar(s[i])]

RECURSIVE split(_, _)
\* s.split(ch) for a one-character ch
split(s, ch) ==
    LET at == {i \in 1..Len(s) : s[i] = ch}
    IN  IF at = {} THEN <<s>>
        ELSE LET i == CHOOSE i \in at : \A k \in at : i <= k
             IN  <<SubSeq(s, 1, i - 1)>> \o split(From(s, i + 1), ch)

RECURSIVE Concat(_)
\* ''.join(parts)
Concat(parts) ==
    IF parts = <<>> THEN <<>> ELSE Head(parts) \o Concat(Tail(parts))

(***************************************************************************)
(* Regular expressions of dedupe.py, matched from the start of the string  *)
(* (re.match).  Each piece consumes a character class disjoint from the     *)
(* one that follows it, so the greedy match is the only match.             *)
(***************************************************************************)
RECURSIVE SkipWhile(_, _, _)
\* the first index >= i of s whose character is outside cls (Len(s)+1 if none)
SkipWhile(s, i, cls) ==
    IF i <= Len(s) /\ s[i] \in cls THEN SkipWhile(s, i + 1, cls) ELSE i

\* kw\s+ at index i: the index after the whitespace, 0 when it does not match
AfterKeyword(s, i, kw) ==
    IF i >= 1 /\ i + Len(kw) - 1 <= Len(s) /\ SubSeq(s, i, i + Len(kw) - 1) = kw
       /\ SkipWhile(s, i + Len(kw), Whitespace) > i + Len(kw)
    THEN SkipWhile(s, i + Len(kw), Whitespace)
    ELSE 0

\* ([a-zA-Z0-9_]+)\s* at index i, then the character ch: the captured group,
\* and the index after ch; NoMatch when it does not match
NoMatch == [name |-> <<>>, next |-> 0]
NameThen(s, i, ch) ==
    IF i < 1 THEN NoMatch
    ELSE LET e == SkipWhile(s, i, WordChars)
             p == SkipWhile(s, e, Whitespace)
         IN  IF e > i /\ p <= Len(s) /\ s[p] = ch
             THEN [name |-> SubSeq(s, i, e - 1), next |-> p + 1]
             ELSE NoMatch

\* 'def'
KW_def ==
    <<"d","e","f">>
\* 'class'
KW_class ==
    <<"c","l","a","s","s">>
\* 'export'
KW_export ==
    <<"e","x","p","o","r","t">>
\* 'function'
KW_function ==
    <<"f","u","n","c","t","i","o","n">>
\* 'const'
KW_const ==
    <<"c","o","n","s","t">>

\* PATTERNS["python"]: ^def\s+([a-zA-Z0-9_]+)\s*\(.*\):
python(s) ==
    LET m == NameThen(s, AfterKeyword(s, 1, KW_def), "(")
    IN  IF m # NoMatch
           /\ \E k \in m.next..(Len(s) - 1) : s[k] = ")" /\ s[k + 1] = ":"
        THEN m.name
        ELSE <<>>

\* PATTERNS["ts_fn"]: ^export\s+function\s+([a-zA-Z0-9_]+)\s*\(
ts_fn(s) ==
    NameThen(s, AfterKeyword(s, AfterKeyword(s, 1, KW_export), KW_function), "(").name

\* PATTERNS["ts_const_fn"]: ^const\s+([a-zA-Z0-9_]+)\s*=\s*\(
ts_const_fn(s) ==
    LET m == NameThen(s, AfterKeyword(s, 1, KW_const), "=")
        p == SkipWhile(s, m.next, Whitespace)
    IN  IF m # NoMatch /\ p <= Len(s) /\ s[p] = "(" THEN m.name ELSE <<>>

\* PATTERNS["js_fn"]: ^function\s+([a-zA-Z0-9_]+)\s*\(
js_fn(s) == NameThen(s, AfterKeyword(s, 1, KW_function), "(").name

\* ^def\s+|^class\s+   (the inner loop's test on a .py file)
PyBlockEnd(s) ==
    AfterKeyword(s, 1, KW_def) # 0 \/ AfterKeyword(s, 1, KW_class) # 0

\* ^(export\s+)?function\s+|^const\s+.*=\s*\(|^class\s+   (the inner loop's test otherwise)
JsBlockEnd(s) ==
    \/ AfterKeyword(s, AfterKeyword(s, 1, KW_export), KW_function) # 0
    \/ AfterKeyword(s, 1, KW_function) # 0
    \/ /\ AfterKeyword(s, 1, KW_const) # 0
       /\ \E k \in (Len(KW_const) + 2)..Len(s) :
             /\ s[k] = "="
             /\ SkipWhile(s, k + 1, Whitespace) <= Len(s)
             /\ s[SkipWhile(s, k + 1, Whitespace)] = "("
    \/ AfterKeyword(s, 1, KW_class) # 0

(***************************************************************************)
(* dedupe.py: hash_block and scan_file.                                    *)
(***************************************************************************)
\* '.py'
EXT_py ==
    <<".","p","y">>
\* '.ts'
EXT_ts ==
    <<".","t","s">>
\* '.js'
EXT_js ==
    <<".","j","s">>
\* '.tsx'
EXT_tsx ==
    <<".","t","s","x">>
\* '.jsx'
EXT_jsx ==
    <<".","j","s","x">>

JsExts == {EXT_ts, EXT_js, EXT_tsx, EXT_jsx}
SupportedExts == {EXT_py} \cup JsExts

HexDigits == <<"0","1","2","3","4","5","6","7","8","9","a","b","c","d","e","f">>
\* two hexadecimal digits for one character of Alphabet
HexOfChar(ch) ==
    LET n == CHOOSE i \in 1..Len(Alphabet) : Alphabet[i] = ch
    IN  <<HexDigits[(n \div 16) + 1], HexDigits[(n % 16) + 1]>>

\* The bytes h.update() has been fed, in order, are the concatenation of the lines.
\* hexdigest() is a string of hexadecimal digits that SHA-256 makes different for
\* different byte strings; it is written here as the hexadecimal code of the bytes.
hash_block(lines) ==
    LET bytes == Concat(lines)
    IN  Concat([k \in 1..Len(bytes) |-> HexOfChar(bytes[k])])

\* os.path.splitext(path)[1]: from the last dot of the last component, when that
\* dot is not among the leading dots of the component
splitext_ext(path) ==
    LET seps  == {i \in 1..Len(path) : path[i] = "/"}
        base  == IF seps = {} THEN 1 ELSE (CHOOSE i \in seps : \A k \in seps : k <= i) + 1
        dots  == {i \in base..Len(path) : path[i] = "."}
        last  == CHOOSE i \in dots : \A k \in dots : k <= i
    IN  IF dots = {} \/ \A k \in base..last : path[k] = "."
        THEN <<>>
        ELSE From(path, last)

\* the match object of lines 41-44, as its group(1); <<>> for None
BlockStart(ext, line) ==
    LET s == strip(line)
    IN  IF ext = EXT_py THEN python(s)
        ELSE IF ext \in JsExts
        THEN IF ts_fn(s) # <<>> THEN ts_fn(s)
             ELSE IF ts_const_fn(s) # <<>> THEN ts_const_fn(s)
             ELSE js_fn(s)
        ELSE <<>>

\* the break tests of lines 52-57
BlockEnd(ext, line) ==
    IF ext = EXT_py THEN PyBlockEnd(strip(line)) ELSE JsBlockEnd(strip(line))

RECURSIVE GatherBlockStopsAtBlank(_, _, _)
\* GatherBlock as the comment of line 47 words it: "until next blank line or next
\* def/function"
GatherBlockStopsAtBlank(ext, lines, j) ==
    IF j <= Len(lines) /\ ~BlockEnd(ext, lines[j]) /\ strip(lines[j]) # <<>>
    THEN GatherBlockStopsAtBlank(ext, lines, j + 1)
    ELSE j

RECURSIVE GatherBlock(_, _, _)
\* the inner while loop (lines 50-59) from a 1-based index j: the index the loop
\* stops at, Len(lines)+1 when it runs to the end of the file
GatherBlock(ext, lines, j) ==
    IF j <= Len(lines) /\ ~BlockEnd(ext, lines[j])
    THEN GatherBlock(ext, lines, j + 1)
    ELSE j

RECURSIVE ScanFrom(_, _, _, _)
\* the outer while loop (lines 38-63) from a 1-based index i
ScanFrom(path, ext, lines, i) ==
    IF i > Len(lines) THEN <<>>
    ELSE IF BlockStart(ext, lines[i]) # <<>>
    THEN LET j == GatherBlock(ext, lines, i + 1)
         IN  <<[name  |-> BlockStart(ext, lines[i]),
                hash  |-> hash_block(SubSeq(lines, i, j - 1)),
                start |-> i,
                end   |-> j - 1,
                path  |-> path]>>
             \o ScanFrom(path, ext, lines, j)
    ELSE ScanFrom(path, ext, lines, i + 1)

\* scan_file(path), with the lines file_lines(path) returned
scan_file(path, lines) == ScanFrom(path, lower(splitext_ext(path)), lines, 1)

(***************************************************************************)
(* Inputs of scan_file on its own.                                         *)
(***************************************************************************)
\* 'def f():\n'
PyDefF ==
    <<"d","e","f"," ","f","(",")",":","\n">>
\* 'def g(x):\n'
PyDefG ==
    <<"d","e","f"," ","g","(","x",")",":","\n">>
\* '  def f():\n'
PyDefIndented ==
    <<" "," ","d","e","f"," ","f","(",")",":","\n">>
\* 'def h(\n'
PyDefOpen ==
    <<"d","e","f"," ","h","(","\n">>
\* 'class C:\n'
PyClass ==
    <<"c","l","a","s","s"," ","C",":","\n">>
\* '    return 1\n'
PyBody ==
    <<" "," "," "," ","r","e","t","u","r","n"," ","1","\n">>
\* '\n'
PyBlank ==
    <<"\n">>
\* 'define()\n'
PyNoWs ==
    <<"d","e","f","i","n","e","(",")","\n">>
\* 'function f() {\n'
JsFunction ==
    <<"f","u","n","c","t","i","o","n"," ","f","(",")"," ","{","\n">>
\* 'export function f() {\n'
JsExport ==
    <<"e","x","p","o","r","t"," ","f","u","n","c","t","i","o","n"," ","f","(",")"," ",
      "{","\n">>
\* 'const f = (x) => x\n'
JsConst ==
    <<"c","o","n","s","t"," ","f"," ","="," ","(","x",")"," ","=",">"," ","x","\n">>
\* 'const {a} = (b)\n'
JsConstDestructure ==
    <<"c","o","n","s","t"," ","{","a","}"," ","="," ","(","b",")","\n">>
\* 'function f<T>() {\n'
JsGeneric ==
    <<"f","u","n","c","t","i","o","n"," ","f","<","T",">","(",")"," ","{","\n">>
\* 'class C {\n'
JsClass ==
    <<"c","l","a","s","s"," ","C"," ","{","\n">>
\* '  return 1\n'
JsBody ==
    <<" "," ","r","e","t","u","r","n"," ","1","\n">>
\* 'export const g = (x) => x\n'
JsExportConst ==
    <<"e","x","p","o","r","t"," ","c","o","n","s","t"," ","g"," ","="," ","(","x",")",
      " ","=",">"," ","x","\n">>
\* 'a.py'
PathA_py ==
    <<"a",".","p","y">>
\* 'm.js'
PathM_js ==
    <<"m",".","j","s">>
\* 't.TSX'
PathT_TSX ==
    <<"t",".","T","S","X">>
\* 'n.txt'
PathN_txt ==
    <<"n",".","t","x","t">>

PyLines == {PyDefF, PyDefG, PyDefIndented, PyDefOpen, PyClass, PyBody, PyBlank, PyNoWs}
JsLines == {JsFunction, JsExport, JsConst, JsConstDestructure, JsGeneric, JsClass,
            JsBody, JsExportConst}

SeqsUpTo(S, n) == UNION {[1..k -> S] : k \in 0..n}

SFInputs ==
    ({PathA_py} \X SeqsUpTo(PyLines, MaxLines))
    \cup ({PathM_js, PathT_TSX} \X SeqsUpTo(JsLines, MaxLines))
    \cup ({PathN_txt} \X SeqsUpTo({PyDefF, JsFunction}, MaxLines))

SFIdle ==
    /\ sf_path = <<>> /\ sf_lines = <<>> /\ sf_results = <<>> /\ sf_pc = "idle"
    /\ sf_i = 0 /\ sf_j = 0 /\ sf_tests = <<>>

SFInit ==
    /\ \E in \in SFInputs : sf_path = in[1] /\ sf_lines = in[2]
    /\ sf_results = <<>>
    /\ sf_pc = "call"
    /\ sf_i = 0 /\ sf_j = 0 /\ sf_tests = <<>>

\* results = scan_file(path)
ScanFile ==
    /\ sf_pc = "call"
    /\ sf_results' = scan_file(sf_path, sf_lines)
    /\ sf_pc' = "returned"
    /\ UNCHANGED <<sf_path, sf_lines, sf_i, sf_j, sf_tests, scanVars, planVars, orchVars>>

(***************************************************************************)
(* scan_file, one iteration of its loops at a time.                        *)
(***************************************************************************)
\* line 60 taken for lines[i] = lines[j]: the tuple ends one line late
BlockEndsOnBreakLine(path, tests, name, i, j) ==
    [name  |-> name,
     hash  |-> Concat([k \in 1..(j - i) |-> tests[i + k].fed]),
     start |-> i + 1,
     end   |-> j + 1,
     path  |-> path]

\* line 60: the tuple (name, hash_block(block), i+1, j, path), block = lines[i:j];
\* hash_block feeds the digest line by line (lines 29-30)
Block(path, tests, name, i, j) ==
    [name  |-> name,
     hash  |-> Concat([k \in 1..(j - i) |-> tests[i + k].fed]),
     start |-> i + 1,
     end   |-> j,
     path  |-> path]

\* for each line, m of lines 40-44 as its group(1) (<<>> for None), whether the
\* line passes the break test of lines 52-57, and what h.update of line 30 adds
\* to the digest for it; the three depend on the line and the extension alone
LineTests(ext, lines) ==
    [k \in 1..Len(lines) |-> [m   |-> BlockStart(ext, lines[k]),
                              brk |-> BlockEnd(ext, lines[k]),
                              fed |-> hash_block(<<lines[k]>>)]]

\* lines 33-37: scan_file is called with a path, whose lines file_lines returns
CallScanFile ==
    /\ sf_pc = "idle"
    /\ \E in \in SFInputs :
          /\ sf_path' = in[1]
          /\ sf_lines' = in[2]
          /\ sf_tests' = LineTests(lower(splitext_ext(in[1])), in[2])
    /\ sf_results' = <<>>
    /\ sf_i' = 0
    /\ sf_pc' = "while"
    /\ UNCHANGED <<sf_j, scanVars, planVars, orchVars>>

\* lines 38-45, 62-63: lines[i] starts no block
SkipLine ==
    /\ sf_pc = "while"
    /\ sf_i < Len(sf_lines)
    /\ sf_tests[sf_i + 1].m = <<>>
    /\ sf_i' = sf_i + 1
    /\ UNCHANGED <<sf_path, sf_lines, sf_tests, sf_results, sf_pc, sf_j, scanVars, planVars, orchVars>>

\* lines 38-49: lines[i] starts a block
OpenBlock ==
    /\ sf_pc = "while"
    /\ sf_i < Len(sf_lines)
    /\ sf_tests[sf_i + 1].m # <<>>
    /\ sf_j' = sf_i + 1
    /\ sf_pc' = "gather"
    /\ UNCHANGED <<sf_path, sf_lines, sf_tests, sf_results, sf_i, scanVars, planVars, orchVars>>

\* lines 50-59: lines[j] does not end the block
GatherLine ==
    /\ sf_pc = "gather"
    /\ sf_j < Len(sf_lines)
    /\ ~sf_tests[sf_j + 1].brk
    /\ sf_j' = sf_j + 1
    /\ UNCHANGED <<sf_path, sf_lines, sf_tests, sf_results, sf_pc, sf_i, scanVars, planVars, orchVars>>

\* lines 50-57, 60-61: the inner loop ends, by its condition or by a break
CloseBlock ==
    /\ sf_pc = "gather"
    /\ sf_j < Len(sf_lines) => sf_tests[sf_j + 1].brk
    /\ sf_results' = Append(sf_results,
                            Block(sf_path, sf_tests, sf_tests[sf_i + 1].m, sf_i, sf_j))
    /\ sf_i' = sf_j
    /\ sf_pc' = "while"
    /\ UNCHANGED <<sf_path, sf_lines, sf_tests, sf_j, scanVars, planVars, orchVars>>

\* lines 38, 64: the outer loop ends
ReturnResults ==
    /\ sf_pc = "while"
    /\ sf_i >= Len(sf_lines)
    /\ sf_pc' = "returned"
    /\ UNCHANGED <<sf_path, sf_lines, sf_tests, sf_results, sf_i, sf_j, scanVars, planVars, orchVars>>

(***************************************************************************)
(* dedupe.py: main.                                                        *)
(***************************************************************************)
\* '/r'
ROOT ==
    <<"/","r">>
\* '/.git'
SkipGit ==
    <<"/",".","g","i","t">>
\* '/node_modules'
SkipNodeModules ==
    <<"/","n","o","d","e","_","m","o","d","u","l","e","s">>
\* '/venv'
SkipVenv ==
    <<"/","v","e","n","v">>
\* '/__pycache__'
SkipPycache ==
    <<"/","_","_","p","y","c","a","c","h","e","_","_">>
\* 'Duplicate candidate: '
MsgDuplicateCandidate ==
    <<"D","u","p","l","i","c","a","t","e"," ","c","a","n","d","i","d","a","t","e",":",
      " ">>
\* ' (hash '
MsgHash ==
    <<" ","(","h","a","s","h"," ">>
\* ') found in:'
MsgFoundIn ==
    <<")"," ","f","o","u","n","d"," ","i","n",":">>
\* '  - '
MsgBullet ==
    <<" "," ","-"," ">>
\* 'No obvious duplicates found by conservative scan.'
MsgNoDuplicates ==
    <<"N","o"," ","o","b","v","i","o","u","s"," ","d","u","p","l","i","c","a","t","e",
      "s"," ","f","o","u","n","d"," ","b","y"," ","c","o","n","s","e","r","v","a","t",
      "i","v","e"," ","s","c","a","n",".">>
\* 'Found '
MsgFound ==
    <<"F","o","u","n","d"," ">>
\* ' candidate duplicated functions. Review manually before merging.'
MsgReview ==
    <<" ","c","a","n","d","i","d","a","t","e"," ","d","u","p","l","i","c","a","t","e",
      "d"," ","f","u","n","c","t","i","o","n","s","."," ","R","e","v","i","e","w"," ",
      "m","a","n","u","a","l","l","y"," ","b","e","f","o","r","e"," ","m","e","r","g",
      "i","n","g",".">>

RECURSIVE str(_)
\* str(n) of a non-negative int, as the f-strings format it
str(n) == IF n < 10 THEN <<Digits[n + 1]>> ELSE str(n \div 10) \o <<Digits[(n % 10) + 1]>>

\* line 70: any(skip in dirpath for skip in [...])
SkipDir(dirpath) ==
    \E skip \in {SkipGit, SkipNodeModules, SkipVenv, SkipPycache} : Contains(dirpath, skip)

\* line 73: fn.endswith((".py", ".ts", ".js", ".tsx", ".jsx"))
IsCandidateFile(fn) == \E ext \in SupportedExts : endswith(fn, ext)

\* line 74: os.path.join(dirpath, fn)
join(dirpath, fn) == dirpath \o <<"/">> \o fn

\* line 76, mistaken: the key is the declared name alone
GroupKeyNameOnly(r) == <<r.name>>

\* line 76: key = (name, h)
GroupKey(r) == <<r.name, r.hash>>

\* line 77, mistaken: the occurrence is put first, candidates[key].insert(0, ...)
AddOccurrenceInFront(cands, r) ==
    LET occ == [path |-> r.path, start |-> r.start, end |-> r.end]
        at  == {g \in 1..Len(cands) : cands[g].key = GroupKey(r)}
    IN  IF at = {}
        THEN Append(cands, [key |-> GroupKey(r), name |-> r.name, hash |-> r.hash,
                            occurrences |-> <<occ>>])
        ELSE LET g == CHOOSE g \in at : TRUE
             IN  [cands EXCEPT ![g].occurrences = <<occ>> \o @]

\* line 77: candidates[key].append((path, start, end))
AddOccurrence(cands, r) ==
    LET occ == [path |-> r.path, start |-> r.start, end |-> r.end]
        at  == {g \in 1..Len(cands) : cands[g].key = GroupKey(r)}
    IN  IF at = {}
        THEN Append(cands, [key |-> GroupKey(r), name |-> r.name, hash |-> r.hash,
                            occurrences |-> <<occ>>])
        ELSE LET g == CHOOSE g \in at : TRUE
             IN  [cands EXCEPT ![g].occurrences = Append(@, occ)]

RECURSIVE AddResults(_, _)
\* lines 75-77 for the results of one file
AddResults(cands, results) ==
    IF results = <<>> THEN cands
    ELSE AddResults(AddOccurrence(cands, Head(results)), Tail(results))

\* the files of one directory that line 73 lets through, in listing order
CandidateFiles(entry) ==
    LET Keep(f) == IsCandidateFile(f.name)
    IN  SelectSeq(entry.files, Keep)

RECURSIVE ScanFiles(_, _, _)
\* lines 72-77 for the files of one directory
ScanFiles(cands, dirpath, files) ==
    IF files = <<>> THEN cands
    ELSE ScanFiles(AddResults(cands, scan_file(join(dirpath, Head(files).name),
                                               Head(files).lines)),
                   dirpath, Tail(files))

\* lines 24, 35, 75: the first of the files that open() refuses, 0 when it refuses none
FirstUnreadable(files) ==
    LET bad == {k \in 1..Len(files) : ~files[k].readable}
    IN  IF bad = {} THEN 0 ELSE CHOOSE k \in bad : \A m \in bad : k <= m

\* line 81, mistaken: a group of one is reported too
IsDuplicateAtLeastOne(occurrences) == Len(occurrences) >= 1

\* line 81: len(occurrences) > 1
IsDuplicate(occurrences) == Len(occurrences) > 1

\* lines 83-86: what is printed for one group
GroupLines(g) ==
    <<MsgDuplicateCandidate \o g.name \o MsgHash \o g.hash \o MsgFoundIn>>
    \o [k \in 1..Len(g.occurrences) |->
           MsgBullet \o g.occurrences[k].path \o <<":">> \o str(g.occurrences[k].start)
           \o <<"-">> \o str(g.occurrences[k].end)]
    \o << <<>> >>

RECURSIVE DuplicateLines(_)
\* lines 80-86
DuplicateLines(cands) ==
    IF cands = <<>> THEN <<>>
    ELSE (IF IsDuplicate(Head(cands).occurrences) THEN GroupLines(Head(cands)) ELSE <<>>)
         \o DuplicateLines(Tail(cands))

\* lines 79-82: dup_count after the loop
DupCount(cands) == Cardinality({g \in 1..Len(cands) : IsDuplicate(cands[g].occurrences)})

\* lines 87-90
SummaryLine(n) ==
    IF n = 0 THEN MsgNoDuplicates ELSE MsgFound \o str(n) \o MsgReview

(***************************************************************************)
(* The trees main is run on.                                               *)
(***************************************************************************)
\* '.git'
DirGit ==
    <<".","g","i","t">>
\* '.github'
DirGithub ==
    <<".","g","i","t","h","u","b">>
\* 'lib'
DirLib ==
    <<"l","i","b">>
\* 'node_modules'
DirNodeModules ==
    <<"n","o","d","e","_","m","o","d","u","l","e","s">>
\* 'pkg'
DirPkg ==
    <<"p","k","g">>
\* 'venv_backup'
DirVenvBackup ==
    <<"v","e","n","v","_","b","a","c","k","u","p">>
\* 'a.py'
FileA ==
    <<"a",".","p","y">>
\* 'b.py'
FileB ==
    <<"b",".","p","y">>
\* 'c.py'
FileC ==
    <<"c",".","p","y">>
\* 'n.txt'
FileN ==
    <<"n",".","t","x","t">>
\* 'def helper(): return 1\n'
Helper1 ==
    <<"d","e","f"," ","h","e","l","p","e","r","(",")",":"," ","r","e","t","u","r","n",
      " ","1","\n">>
\* 'def helper(): return 2\n'
Helper2 ==
    <<"d","e","f"," ","h","e","l","p","e","r","(",")",":"," ","r","e","t","u","r","n",
      " ","2","\n">>
\* 'helper'
NameHelper ==
    <<"h","e","l","p","e","r">>

\* the directories of the tree, as path components below ROOT, in the top-down
\* order os.walk visits them
DirCatalog ==
    << <<>>, <<DirGit>>, <<DirGithub>>, <<DirLib>>, <<DirLib, DirNodeModules>>,
       <<DirLib, DirNodeModules, DirPkg>>, <<DirVenvBackup>> >>
DirPath(d) ==
    ROOT \o Concat([k \in 1..Len(DirCatalog[d]) |-> <<"/">> \o DirCatalog[d][k]])

\* the places a file may be at: <<directory, name>>, in listing order
Slots ==
    << <<1, FileA>>, <<1, FileB>>, <<1, FileC>>, <<2, FileA>>, <<3, FileA>>, <<4, FileA>>,
       <<4, FileN>>, <<6, FileA>>, <<7, FileA>> >>
\* the contents a file may have, as the lines file_lines returns
ContentCatalog == << <<Helper1>>, <<Helper2>>, <<Helper2, PyBlank, Helper1>> >>

\* the content number of a file that open() of line 24 refuses (PermissionError);
\* on disk it holds content number 1
Unreadable == Len(ContentCatalog) + 1
\* the slot whose file may be unreadable: b.py of the root, listed after a.py and
\* before c.py and every subdirectory
UnreadableSlot == CHOOSE k \in 1..Len(Slots) : Slots[k] = <<1, FileB>>

\* the tree in which slot k holds content number assign[k] (0: no such file)
TreeOf(assign) ==
    [d \in 1..Len(DirCatalog) |->
        [dirpath |-> DirPath(d),
         files   |->
            LET here == SelectSeq([k \in 1..Len(Slots) |-> k],
                                  LAMBDA k : Slots[k][1] = d /\ assign[k] # 0)
            IN  [n \in 1..Len(here) |->
                    [name     |-> Slots[here[n]][2],
                     readable |-> assign[here[n]] # Unreadable,
                     lines    |-> IF assign[here[n]] = Unreadable
                                  THEN ContentCatalog[1]
                                  ELSE ContentCatalog[assign[here[n]]]]]]]

ReadableAssignments ==
    {a \in [1..Len(Slots) -> 0..Len(ContentCatalog)] :
        Cardinality({k \in 1..Len(Slots) : a[k] # 0}) <= MaxFiles}
Trees ==
    {TreeOf(assign) : assign \in ReadableAssignments}
    \cup {TreeOf([assign EXCEPT ![UnreadableSlot] = Unreadable]) :
              assign \in {a \in ReadableAssignments : a[UnreadableSlot] = 1}}

ScanIdle ==
    /\ tree = <<>> /\ walk_i = 0 /\ scanned = <<>> /\ candidates = <<>>
    /\ stdout = <<>> /\ dup_count = 0 /\ scan_pc = "idle" /\ scan_exit = -1
    /\ scan_runs = 0 /\ prev_candidates = <<>> /\ prev_stdout = <<>>

ScanInit ==
    /\ tree \in Trees
    /\ walk_i = 1
    /\ scanned = <<>>
    /\ candidates = <<>>
    /\ stdout = <<>>
    /\ dup_count = 0
    /\ scan_pc = "walk"
    /\ scan_exit = -1
    /\ scan_runs = 1
    /\ prev_candidates = <<>>
    /\ prev_stdout = <<>>

\* the trees that are scanned twice: those with files in the root and in lib only
RescanTrees ==
    {t \in Trees : \A d \in 1..Len(t) : t[d].files # <<>> => DirCatalog[d] \in {<<>>, <<DirLib>>}}
RescanInit ==
    /\ tree \in RescanTrees
    /\ walk_i = 1
    /\ scanned = <<>>
    /\ candidates = <<>>
    /\ stdout = <<>>
    /\ dup_count = 0
    /\ scan_pc = "walk"
    /\ scan_exit = -1
    /\ scan_runs = 1
    /\ prev_candidates = <<>>
    /\ prev_stdout = <<>>

\* one iteration of the for loop of line 68. scan_file is called on the candidate
\* files in listing order; open() of line 24 raises on the first one that cannot be
\* read, and nothing between there and the end of the script catches it.
WalkDir ==
    /\ scan_pc = "walk"
    /\ LET entry  == tree[walk_i]
           files  == IF SkipDir(entry.dirpath) THEN <<>> ELSE CandidateFiles(entry)
           bad    == FirstUnreadable(files)
           opened == IF bad = 0 THEN files ELSE SubSeq(files, 1, bad)
           read   == IF bad = 0 THEN files ELSE SubSeq(files, 1, bad - 1)
       IN  /\ candidates' = ScanFiles(candidates, entry.dirpath, read)
           /\ scanned' = scanned \o [k \in 1..Len(opened) |->
                                        join(entry.dirpath, opened[k].name)]
           /\ scan_pc' = IF bad # 0 THEN "raised"
                         ELSE IF walk_i = Len(tree) THEN "print" ELSE "walk"
    /\ walk_i' = walk_i + 1
    /\ UNCHANGED <<tree, stdout, dup_count, scan_exit, rescanVars, sfVars, planVars, orchVars>>

\* lines 78-90
PrintDuplicates ==
    /\ scan_pc = "print"
    /\ dup_count' = DupCount(candidates)
    /\ stdout' = DuplicateLines(candidates) \o <<SummaryLine(DupCount(candidates))>>
    /\ scan_pc' = "exit"
    /\ UNCHANGED <<tree, walk_i, scanned, candidates, scan_exit, rescanVars, sfVars, planVars, orchVars>>

\* lines 92-93: main() returns None and the script ends, so the interpreter exits
\* with status 0
ExitScan ==
    /\ scan_pc = "exit"
    /\ scan_exit' = 0
    /\ scan_pc' = "done"
    /\ UNCHANGED <<tree, walk_i, scanned, candidates, stdout, dup_count, rescanVars, sfVars, planVars, orchVars>>

\* lines 24, 92-93: the exception of open() leaves main and the script; the
\* interpreter prints the traceback on stderr and exits with status 1. Nothing was
\* printed on stdout, the prints being after the walk.
ExitTraceback ==
    /\ scan_pc = "raised"
    /\ scan_exit' = 1
    /\ scan_pc' = "crashed"
    /\ UNCHANGED <<tree, walk_i, scanned, candidates, stdout, dup_count, rescanVars, sfVars, planVars, orchVars>>

\* dedupe.py is run again on the tree, which nothing has changed: os.walk yields
\* the directories and the files in the order it did
ScanAgain ==
    /\ scan_pc \in {"done", "crashed"}
    /\ scan_runs < MaxScans
    /\ scan_runs' = scan_runs + 1
    /\ prev_candidates' = candidates
    /\ prev_stdout' = stdout
    /\ walk_i' = 1
    /\ scanned' = <<>>
    /\ candidates' = <<>>
    /\ stdout' = <<>>
    /\ dup_count' = 0
    /\ scan_pc' = "walk"
    /\ scan_exit' = -1
    /\ UNCHANGED <<tree, sfVars, planVars, orchVars>>

(***************************************************************************)
(* apply_consolidation.py.                                                 *)
(***************************************************************************)
\* 'shared-ui'
PkgSharedUi ==
    <<"s","h","a","r","e","d","-","u","i">>
\* 'shared-utils'
PkgSharedUtils ==
    <<"s","h","a","r","e","d","-","u","t","i","l","s">>
\* 'shared-python'
PkgSharedPython ==
    <<"s","h","a","r","e","d","-","p","y","t","h","o","n">>
\* 'component'
StrComponent ==
    <<"c","o","m","p","o","n","e","n","t">>
\* '/r/build/consolidation_report/dedupe_candidates.json'
ReportPath ==
    <<"/","r","/","b","u","i","l","d","/","c","o","n","s","o","l","i","d","a","t","i",
      "o","n","_","r","e","p","o","r","t","/","d","e","d","u","p","e","_","c","a","n",
      "d","i","d","a","t","e","s",".","j","s","o","n">>
\* 'Reading dedupe report from '
MsgReading ==
    <<"R","e","a","d","i","n","g"," ","d","e","d","u","p","e"," ","r","e","p","o","r",
      "t"," ","f","r","o","m"," ">>
\* ' duplicate function groups'
MsgGroups ==
    <<" ","d","u","p","l","i","c","a","t","e"," ","f","u","n","c","t","i","o","n"," ",
      "g","r","o","u","p","s">>
\* 'Warning: Could not parse occurrence '
MsgWarning ==
    <<"W","a","r","n","i","n","g",":"," ","C","o","u","l","d"," ","n","o","t"," ","p",
      "a","r","s","e"," ","o","c","c","u","r","r","e","n","c","e"," ">>
\* '\n=== Consolidation Plan ==='
MsgPlanTitle ==
    <<"\n","=","=","="," ","C","o","n","s","o","l","i","d","a","t","i","o","n"," ","P",
      "l","a","n"," ","=","=","=">>
\* '  - '
MsgItem ==
    <<" "," ","-"," ">>
\* ' from '
MsgFrom ==
    <<" ","f","r","o","m"," ">>
\* '    Found in '
MsgFoundInN ==
    <<" "," "," "," ","F","o","u","n","d"," ","i","n"," ">>
\* ' locations'
MsgLocations ==
    <<" ","l","o","c","a","t","i","o","n","s">>
\* ' Analysis complete. Found '
MsgComplete ==
    <<" ","A","n","a","l","y","s","i","s"," ","c","o","m","p","l","e","t","e","."," ",
      "F","o","u","n","d"," ">>
\* ' functions to consolidate.'
MsgToConsolidate ==
    <<" ","f","u","n","c","t","i","o","n","s"," ","t","o"," ","c","o","n","s","o","l",
      "i","d","a","t","e",".">>
\* '  This script creates a consolidation plan.'
MsgCreatesPlan ==
    <<" "," ","T","h","i","s"," ","s","c","r","i","p","t"," ","c","r","e","a","t","e",
      "s"," ","a"," ","c","o","n","s","o","l","i","d","a","t","i","o","n"," ","p","l",
      "a","n",".">>
\* '  Manual consolidation recommended for complex TypeScript/React components.'
MsgManual ==
    <<" "," ","M","a","n","u","a","l"," ","c","o","n","s","o","l","i","d","a","t","i",
      "o","n"," ","r","e","c","o","m","m","e","n","d","e","d"," ","f","o","r"," ","c",
      "o","m","p","l","e","x"," ","T","y","p","e","S","c","r","i","p","t","/","R","e",
      "a","c","t"," ","c","o","m","p","o","n","e","n","t","s",".">>

\* the character U+2713 that line 89 prints
CheckMark == "U+2713"

IsDigit(ch) == ch \in Range(Digits)
RECURSIVE int(_)
\* int(s) of a string of decimal digits
int(s) ==
    IF s = <<>> THEN 0
    ELSE 10 * int(SubSeq(s, 1, Len(s) - 1))
         + (CHOOSE v \in 0..9 : Digits[v + 1] = s[Len(s)])

\* parse_occurrence: re.match(r'(.+):(\d+)-(\d+)', occurrence).  The greedy (.+)
\* ends at the last colon after which \d+-\d+ matches; "." matches no newline.
NoOccurrence == [filepath |-> <<>>, start |-> -1, end |-> -1]
parse_occurrence(occurrence) ==
    LET DigitsEnd(i) == SkipWhile(occurrence, i, Range(Digits))
        Matches(c) ==
            /\ c >= 2
            /\ occurrence[c] = ":"
            /\ \A k \in 1..(c - 1) : occurrence[k] # "\n"
            /\ DigitsEnd(c + 1) > c + 1
            /\ DigitsEnd(c + 1) <= Len(occurrence)
            /\ occurrence[DigitsEnd(c + 1)] = "-"
            /\ DigitsEnd(DigitsEnd(c + 1) + 1) > DigitsEnd(c + 1) + 1
        at == {c \in 1..Len(occurrence) : Matches(c)}
    IN  IF at = {} THEN NoOccurrence
        ELSE LET c == CHOOSE c \in at : \A k \in at : k <= c
                 d == DigitsEnd(c + 1)
             IN  [filepath |-> SubSeq(occurrence, 1, c - 1),
                  start    |-> int(SubSeq(occurrence, c + 1, d - 1)),
                  end      |-> int(SubSeq(occurrence, d + 1, DigitsEnd(d + 1) - 1))]

RECURSIVE sorted_by_depth(_)
\* sorted(occurrences, key=lambda x: x.count('/')): a stable sort, so among equal
\* keys the order of the list is kept
sorted_by_depth(occurrences) ==
    IF occurrences = <<>> THEN <<>>
    ELSE LET least == CHOOSE i \in 1..Len(occurrences) :
                          /\ \A k \in 1..Len(occurrences) :
                                count(occurrences[i], "/") <= count(occurrences[k], "/")
                          /\ \A k \in 1..(i - 1) :
                                count(occurrences[k], "/") > count(occurrences[i], "/")
         IN  <<occurrences[least]>>
             \o sorted_by_depth(SubSeq(occurrences, 1, least - 1)
                                \o SubSeq(occurrences, least + 1, Len(occurrences)))

\* determine_canonical_path, mistaken: the sort is descending (reverse=True)
determine_canonical_path_deepest(occurrences) ==
    sorted_by_depth(occurrences)[Len(occurrences)]

\* determine_canonical_path
determine_canonical_path(occurrences) == sorted_by_depth(occurrences)[1]

\* Path(filepath).suffix: of the final component, from its last dot, when that dot
\* is neither its first nor its last character
PathSuffix(filepath) ==
    LET parts == SelectSeq(split(filepath, "/"), LAMBDA c : c # <<>>)
        name  == IF parts = <<>> THEN <<>> ELSE parts[Len(parts)]
        dots  == {i \in 1..Len(name) : name[i] = "."}
        last  == CHOOSE i \in dots : \A k \in dots : k <= i
    IN  IF dots = {} \/ last = 1 \/ last = Len(name) THEN <<>> ELSE From(name, last)

\* lines 64-70, mistaken: 'component' is looked for in the path as written
target_pkg_case_sensitive(filepath) ==
    LET ext == PathSuffix(filepath)
    IN  IF ext \in {EXT_ts, EXT_tsx, EXT_js, EXT_jsx}
        THEN IF Contains(filepath, StrComponent) THEN PkgSharedUi ELSE PkgSharedUtils
        ELSE IF ext \in {EXT_py} THEN PkgSharedPython
        ELSE PkgSharedUtils

\* lines 64-70: the target package of a canonical file path
target_pkg(filepath) ==
    LET ext == PathSuffix(filepath)
    IN  IF ext \in {EXT_ts, EXT_tsx, EXT_js, EXT_jsx}
        THEN IF Contains(lower(filepath), StrComponent) THEN PkgSharedUi ELSE PkgSharedUtils
        ELSE IF ext \in {EXT_py} THEN PkgSharedPython
        ELSE PkgSharedUtils

\* lines 72-79: the plan with one more entry under pkg
AddToPlan(plan, pkg, entry) ==
    LET at == {n \in 1..Len(plan) : plan[n].pkg = pkg}
    IN  IF at = {} THEN Append(plan, [pkg |-> pkg, funcs |-> <<entry>>])
        ELSE [plan EXCEPT ![CHOOSE n \in at : TRUE].funcs = Append(@, entry)]

\* line 89, mistaken: the packages are counted, len(consolidation_plan)
SumLenOfKeys(plan) == Len(plan)

RECURSIVE SumLen(_)
\* sum(len(v) for v in consolidation_plan.values())
SumLen(plan) == IF plan = <<>> THEN 0 ELSE Len(Head(plan).funcs) + SumLen(Tail(plan))

\* lines 84-87 for one package
PackageLines(p) ==
    << <<"\n">> \o p.pkg \o <<":">> >>
    \o Concat([k \in 1..Len(p.funcs) |->
          <<MsgItem \o p.funcs[k].function \o MsgFrom \o p.funcs[k].canonical,
            MsgFoundInN \o str(Len(p.funcs[k].occurrences)) \o MsgLocations>>])

\* lines 82-91
PlanLines(plan) ==
    <<MsgPlanTitle>>
    \o Concat([n \in 1..Len(plan) |-> PackageLines(plan[n])])
    \o <<<<"\n", CheckMark>> \o MsgComplete \o str(SumLen(plan)) \o MsgToConsolidate,
         MsgCreatesPlan, MsgManual>>

(***************************************************************************)
(* json.dump and json.load of the report: a list of objects whose values   *)
(* are a string or a list of strings, over the characters of Alphabet.     *)
(***************************************************************************)
\* 'function'
KeyFunction ==
    <<"f","u","n","c","t","i","o","n">>
\* 'occurrences'
KeyOccurrences ==
    <<"o","c","c","u","r","r","e","n","c","e","s">>

\* the whitespace of JSON
JsonWs == {" ", "\t", "\n", "\r"}

\* json.dump, ensure_ascii: the escape of one character inside a string
JsonEscape(ch) ==
    CASE ch = "\"" -> <<"\\", "\"">>
      [] ch = "\\" -> <<"\\", "\\">>
      [] ch = "\n" -> <<"\\", "n">>
      [] ch = "\r" -> <<"\\", "r">>
      [] ch = "\t" -> <<"\\", "t">>
      [] OTHER     -> <<ch>>
\* json.load: the character an escape \c stands for
JsonUnescape(c) ==
    CASE c = "n" -> "\n"
      [] c = "r" -> "\r"
      [] c = "t" -> "\t"
      [] OTHER   -> c

\* json.dump of a str
json_str(x) == <<"\"">> \o Concat([k \in 1..Len(x) |-> JsonEscape(x[k])]) \o <<"\"">>
\* the newline and the indent=2 indentation of nesting level n
JsonIndent(n) == <<"\n">> \o [k \in 1..(2 * n) |-> " "]
\* json.dump of a list whose items are already dumped, at nesting level n
JsonList(items, n) ==
    IF items = <<>> THEN <<"[", "]">>
    ELSE <<"[">>
         \o Concat([k \in 1..Len(items) |->
                JsonIndent(n + 1) \o items[k] \o (IF k < Len(items) THEN <<",">> ELSE <<>>)])
         \o JsonIndent(n) \o <<"]">>
\* json.dump of one record of the report, at nesting level 1
JsonRecord(c) ==
    <<"{">>
    \o JsonIndent(2) \o json_str(KeyFunction) \o <<":", " ">> \o json_str(c.function) \o <<",">>
    \o JsonIndent(2) \o json_str(KeyOccurrences) \o <<":", " ">>
    \o JsonList([k \in 1..Len(c.occurrences) |-> json_str(c.occurrences[k])], 2)
    \o JsonIndent(1) \o <<"}">>
\* auto_consolidate.py line 53: json.dump(candidates, f, indent=2)
json_dump(cands) == JsonList([k \in 1..Len(cands) |-> JsonRecord(cands[k])], 0)

RECURSIVE JsonStringBody(_, _)
\* the characters of a JSON string from index j, behind its opening quote, and the
\* index behind its closing quote
JsonStringBody(t, j) ==
    IF t[j] = "\"" THEN [val |-> <<>>, next |-> j + 1]
    ELSE IF t[j] = "\\"
    THEN LET r == JsonStringBody(t, j + 2)
         IN  [val |-> <<JsonUnescape(t[j + 1])>> \o r.val, next |-> r.next]
    ELSE LET r == JsonStringBody(t, j + 1)
         IN  [val |-> <<t[j]>> \o r.val, next |-> r.next]

RECURSIVE JsonValue(_, _)
RECURSIVE JsonItems(_, _)
RECURSIVE JsonMembers(_, _)
\* the items of an array from index i, behind '[' or ',', up to its ']'
JsonItems(t, i) ==
    LET k == SkipWhile(t, i, JsonWs)
    IN  IF t[k] = "]" THEN [val |-> <<>>, next |-> k + 1]
        ELSE LET v == JsonValue(t, k)
                 m == SkipWhile(t, v.next, JsonWs)
             IN  IF t[m] = ","
                 THEN LET r == JsonItems(t, m + 1)
                      IN  [val |-> <<v.val>> \o r.val, next |-> r.next]
                 ELSE [val |-> <<v.val>>, next |-> m + 1]
\* the members of an object from index i, behind '{' or ',', up to its '}', as
\* <<key, value>> pairs
JsonMembers(t, i) ==
    LET k == SkipWhile(t, i, JsonWs)
    IN  IF t[k] = "}" THEN [val |-> <<>>, next |-> k + 1]
        ELSE LET key == JsonStringBody(t, k + 1)
                 c   == SkipWhile(t, key.next, JsonWs)
                 v   == JsonValue(t, c + 1)
                 m   == SkipWhile(t, v.next, JsonWs)
             IN  IF t[m] = ","
                 THEN LET r == JsonMembers(t, m + 1)
                      IN  [val |-> << <<key.val, v.val>> >> \o r.val, next |-> r.next]
                 ELSE [val |-> << <<key.val, v.val>> >>, next |-> m + 1]
\* the value that starts at or after index i: a string, an array, or an object as
\* the dict it is loaded to (a function from its keys)
JsonValue(t, i) ==
    LET k == SkipWhile(t, i, JsonWs)
    IN  IF t[k] = "\"" THEN JsonStringBody(t, k + 1)
        ELSE IF t[k] = "[" THEN JsonItems(t, k + 1)
        ELSE LET ms == JsonMembers(t, k + 1)
                 Get(key) == ms.val[CHOOSE n \in 1..Len(ms.val) : ms.val[n][1] = key][2]
             IN  [val  |-> [function |-> Get(KeyFunction), occurrences |-> Get(KeyOccurrences)],
                  next |-> ms.next]

\* apply_consolidation.py line 41: json.load(f)
json_load(text) == JsonValue(text, 1).val

(***************************************************************************)
(* The reports main of apply_consolidation.py is run on.                   *)
(***************************************************************************)
\* 'apps/x/a.py:1-5'
OccApps ==
    <<"a","p","p","s","/","x","/","a",".","p","y",":","1","-","5">>
\* 'packages/y/a.py:1-5'
OccPackages ==
    <<"p","a","c","k","a","g","e","s","/","y","/","a",".","p","y",":","1","-","5">>
\* 'a.py:1-5'
OccRoot ==
    <<"a",".","p","y",":","1","-","5">>
\* 'ui/Component.tsx:2-9'
OccComponent ==
    <<"u","i","/","C","o","m","p","o","n","e","n","t",".","t","s","x",":","2","-","9">>
\* 'b.js:10-12'
OccJs ==
    <<"b",".","j","s",":","1","0","-","1","2">>
\* 'x/n.txt:1-2'
OccTxt ==
    <<"x","/","n",".","t","x","t",":","1","-","2">>
\* 'bad'
OccBad ==
    <<"b","a","d">>
\* 'g'
NameG ==
    <<"g">>

OccCatalog == {OccApps, OccPackages, OccRoot, OccComponent, OccJs, OccTxt, OccBad}
\* the empty report; a first record with any occurrences, then none or one of two
\* more records
Reports ==
    {<<>>}
    \cup {<<[function |-> NameHelper, occurrences |-> occs]>> \o rest :
             occs \in SeqsUpTo(OccCatalog, MaxOccs),
             rest \in {<<>>,
                       <<[function |-> NameG, occurrences |-> <<OccJs, OccComponent>>]>>,
                       <<[function |-> NameG, occurrences |-> <<OccRoot, OccApps>>]>>}}

PlanIdle ==
    /\ report = <<>> /\ report_readable = TRUE
    /\ plan_candidates = <<>> /\ plan_i = 0 /\ canonical = <<>>
    /\ consolidation_plan = <<>> /\ plan_stdout = <<>> /\ plan_pc = "idle"
    /\ plan_exit = -1

PlanInit ==
    /\ \/ report \in Reports /\ report_readable = TRUE
       \/ report = <<>> /\ report_readable = FALSE
    /\ plan_candidates = <<>>
    /\ plan_i = 0
    /\ canonical = <<>>
    /\ consolidation_plan = <<>>
    /\ plan_stdout = <<>>
    /\ plan_pc = "read"
    /\ plan_exit = -1

\* lines 35-41: the report is missing or is not JSON. Line 38 has printed; open or
\* json.load raises, nothing catches it, and the interpreter prints the traceback
\* on stderr and exits with status 1.
ReadReportRaises ==
    /\ plan_pc = "read"
    /\ ~report_readable
    /\ plan_stdout' = <<MsgReading \o ReportPath>>
    /\ plan_exit' = 1
    /\ plan_pc' = "crashed"
    /\ UNCHANGED <<report, report_readable, plan_candidates, plan_i, canonical,
                   consolidation_plan, sfVars, scanVars, orchVars>>

\* lines 35-46; report holds the records json.load of line 41 returns
ReadReport ==
    /\ plan_pc = "read"
    /\ report_readable
    /\ plan_candidates' = report
    /\ plan_stdout' = <<MsgReading \o ReportPath, MsgFound \o str(Len(report)) \o MsgGroups>>
    /\ consolidation_plan' = <<>>
    /\ plan_i' = 1
    /\ plan_pc' = "loop"
    /\ UNCHANGED <<report, report_readable, canonical, plan_exit, sfVars, scanVars, orchVars>>

\* lines 48-53: a record with fewer than two occurrences is passed over
SkipRecord ==
    /\ plan_pc = "loop" /\ plan_i <= Len(plan_candidates)
    /\ Len(plan_candidates[plan_i].occurrences) < 2
    /\ plan_i' = plan_i + 1
    /\ UNCHANGED <<report, report_readable, plan_candidates, canonical, consolidation_plan, plan_stdout,
                   plan_pc, plan_exit, sfVars, scanVars, orchVars>>

\* lines 48-61: the canonical occurrence does not parse
WarnRecord ==
    /\ plan_pc = "loop" /\ plan_i <= Len(plan_candidates)
    /\ Len(plan_candidates[plan_i].occurrences) >= 2
    /\ canonical' = determine_canonical_path(plan_candidates[plan_i].occurrences)
    /\ parse_occurrence(canonical') = NoOccurrence
    /\ plan_stdout' = Append(plan_stdout, MsgWarning \o canonical')
    /\ plan_i' = plan_i + 1
    /\ UNCHANGED <<report, report_readable, plan_candidates, consolidation_plan, plan_pc, plan_exit,
                   sfVars, scanVars, orchVars>>

\* lines 48-79: the record gets its canonical occurrence and its target package
ClassifyRecord ==
    /\ plan_pc = "loop" /\ plan_i <= Len(plan_candidates)
    /\ Len(plan_candidates[plan_i].occurrences) >= 2
    /\ canonical' = determine_canonical_path(plan_candidates[plan_i].occurrences)
    /\ parse_occurrence(canonical') # NoOccurrence
    /\ consolidation_plan' =
          AddToPlan(consolidation_plan, target_pkg(parse_occurrence(canonical').filepath),
                    [function    |-> plan_candidates[plan_i].function,
                     canonical   |-> canonical',
                     occurrences |-> plan_candidates[plan_i].occurrences])
    /\ plan_i' = plan_i + 1
    /\ UNCHANGED <<report, report_readable, plan_candidates, plan_stdout, plan_pc, plan_exit,
                   sfVars, scanVars, orchVars>>

\* lines 81-96: the plan is printed, main returns 0 and exit(0) ends the script
PrintPlan ==
    /\ plan_pc = "loop" /\ plan_i > Len(plan_candidates)
    /\ plan_stdout' = plan_stdout \o PlanLines(consolidation_plan)
    /\ plan_exit' = 0
    /\ plan_pc' = "done"
    /\ UNCHANGED <<report, report_readable, plan_candidates, plan_i, canonical, consolidation_plan,
                   sfVars, scanVars, orchVars>>

(***************************************************************************)
(* auto_consolidate.py.  What the script prints itself is left out.        *)
(***************************************************************************)
\* 'Duplicate candidate:'
PrefixDuplicateCandidate ==
    <<"D","u","p","l","i","c","a","t","e"," ","c","a","n","d","i","d","a","t","e",":">>
\* 'unknown'
StrUnknown ==
    <<"u","n","k","n","o","w","n">>
\* 'fn'
StrFn ==
    <<"f","n">>
\* '# Auto-generated consolidation stub for function: '
StubHeader ==
    <<"#"," ","A","u","t","o","-","g","e","n","e","r","a","t","e","d"," ","c","o","n",
      "s","o","l","i","d","a","t","i","o","n"," ","s","t","u","b"," ","f","o","r"," ",
      "f","u","n","c","t","i","o","n",":"," ">>
\* '# Review occurrences:'
StubReview ==
    <<"#"," ","R","e","v","i","e","w"," ","o","c","c","u","r","r","e","n","c","e","s",
      ":">>
\* '#   '
StubOccPrefix ==
    <<"#"," "," "," ">>
\* 'def '
StubDef ==
    <<"d","e","f"," ">>
\* '(*args, **kwargs):\n'
StubArgs ==
    <<"(","*","a","r","g","s",","," ","*","*","k","w","a","r","g","s",")",":","\n">>
\* '    """IMPLEMENTATION: merge canonical behavior from occurrences listed above."""\n'
StubDoc ==
    <<" "," "," "," ","\"","\"","\"","I","M","P","L","E","M","E","N","T","A","T","I",
      "O","N",":"," ","m","e","r","g","e"," ","c","a","n","o","n","i","c","a","l"," ",
      "b","e","h","a","v","i","o","r"," ","f","r","o","m"," ","o","c","c","u","r","r",
      "e","n","c","e","s"," ","l","i","s","t","e","d"," ","a","b","o","v","e",".","\"",
      "\"","\"","\n">>
\* '    raise NotImplementedError("Consolidate and implement this function based on occurrences")\n'
StubRaise ==
    <<" "," "," "," ","r","a","i","s","e"," ","N","o","t","I","m","p","l","e","m","e",
      "n","t","e","d","E","r","r","o","r","(","\"","C","o","n","s","o","l","i","d","a",
      "t","e"," ","a","n","d"," ","i","m","p","l","e","m","e","n","t"," ","t","h","i",
      "s"," ","f","u","n","c","t","i","o","n"," ","b","a","s","e","d"," ","o","n"," ",
      "o","c","c","u","r","r","e","n","c","e","s","\"",")","\n">>

RECURSIVE splitlines(_)
\* text.splitlines(), for the line boundaries \n, \r and \r\n
splitlines(text) ==
    LET at == {i \in 1..Len(text) : text[i] \in {"\n", "\r"}}
    IN  IF text = <<>> THEN <<>>
        ELSE IF at = {} THEN <<text>>
        ELSE LET i == CHOOSE i \in at : \A k \in at : i <= k
                 n == IF text[i] = "\r" /\ i < Len(text) /\ text[i + 1] = "\n"
                      THEN i + 2 ELSE i + 1
             IN  <<SubSeq(text, 1, i - 1)>> \o splitlines(From(text, n))

\* s.split(ch, 1)
split_once(s, ch) ==
    LET at == {i \in 1..Len(s) : s[i] = ch}
    IN  IF at = {} THEN <<s>>
        ELSE LET i == CHOOSE i \in at : \A k \in at : i <= k
             IN  <<SubSeq(s, 1, i - 1), From(s, i + 1)>>

\* s.lstrip(chars)
lstrip_chars(s, chars) == From(s, SkipWhile(s, 1, chars))

\* lines 37-38: the function name of a 'Duplicate candidate:' line
CandidateName(l) ==
    LET parts == split_once(l, ":")
    IN  IF Len(parts) > 1 THEN strip(split(parts[2], "(")[1]) ELSE StrUnknown

RECURSIVE BulletsEnd(_, _)
\* line 41: the first index from i whose stripped line does not start with '-'
BulletsEnd(lines, i) ==
    IF i <= Len(lines) /\ startswith(strip(lines[i]), <<"-">>)
    THEN BulletsEnd(lines, i + 1)
    ELSE i

RECURSIVE ParseFrom(_, _)
\* the while loop of lines 34-46 from a 1-based index i
ParseFrom(lines, i) ==
    IF i > Len(lines) THEN <<>>
    ELSE IF startswith(strip(lines[i]), PrefixDuplicateCandidate)
    THEN LET e == BulletsEnd(lines, i + 1)
         IN  <<[function    |-> CandidateName(strip(lines[i])),
                occurrences |-> [k \in 1..(e - i - 1) |->
                                    strip(lstrip_chars(strip(lines[i + k]), {"-", " "}))]]>>
             \o ParseFrom(lines, e)
    ELSE ParseFrom(lines, i + 1)

\* parse_dedupe_output(text)
parse_dedupe_output(text) == ParseFrom(splitlines(text), 1)

\* line 60: safe_name
safe_name(name) ==
    LET mapped == [i \in 1..Len(name) |->
                      IF IsAlnum(name[i]) \/ name[i] = "_" THEN name[i] ELSE "_"]
    IN  IF mapped = <<>> THEN StrFn ELSE mapped

\* line 61: the name of the stub file in STUBS_DIR
stub_py(name) == safe_name(name) \o EXT_py

\* lines 64-71: what the f.write calls put in a new stub
StubText(c) ==
    StubHeader \o c.function \o <<"\n">>
    \o StubReview
    \o Concat([k \in 1..Len(c.occurrences) |-> StubOccPrefix \o c.occurrences[k] \o <<"\n">>])
    \o <<"\n">>
    \o StubDef \o safe_name(c.function) \o StubArgs
    \o StubDoc
    \o StubRaise

RECURSIVE create_stubs_overwriting(_, _)
\* create_stubs, mistaken: the stub is written whether or not it exists
create_stubs_overwriting(files, cands) ==
    IF cands = <<>> THEN files
    ELSE create_stubs_overwriting(
             [f \in DOMAIN files \cup {stub_py(Head(cands).function)} |->
                 IF f = stub_py(Head(cands).function) THEN StubText(Head(cands))
                 ELSE files[f]],
             Tail(cands))

RECURSIVE create_stubs(_, _)
\* create_stubs(candidates), on the files of STUBS_DIR
create_stubs(files, cands) ==
    IF cands = <<>> THEN files
    ELSE create_stubs(
             IF stub_py(Head(cands).function) \in DOMAIN files
             THEN files
             ELSE [f \in DOMAIN files \cup {stub_py(Head(cands).function)} |->
                      IF f = stub_py(Head(cands).function) THEN StubText(Head(cands))
                      ELSE files[f]],
             Tail(cands))

(***************************************************************************)
(* The outcomes of the dedupe.py subprocess, and the candidates            *)
(* create_stubs is called with.                                            *)
(***************************************************************************)
\* '# edited by hand\ndef helper(): return 1\n'
EditedStub ==
    <<"#"," ","e","d","i","t","e","d"," ","b","y"," ","h","a","n","d","\n","d","e","f",
      " ","h","e","l","p","e","r","(",")",":"," ","r","e","t","u","r","n"," ","1","\n">>
\* "Traceback (most recent call last):\nPermissionError: [Errno 13] Permission denied: '/r/x.py'\n"
TracebackText ==
    <<"T","r","a","c","e","b","a","c","k"," ","(","m","o","s","t"," ","r","e","c","e",
      "n","t"," ","c","a","l","l"," ","l","a","s","t",")",":","\n","P","e","r","m","i",
      "s","s","i","o","n","E","r","r","o","r",":"," ","[","E","r","r","n","o"," ","1",
      "3","]"," ","P","e","r","m","i","s","s","i","o","n"," ","d","e","n","i","e","d",
      ":"," ","'","/","r","/","x",".","p","y","'","\n">>
\* '+++'
NameSymbols ==
    <<"+","+","+">>
\* 'a+b'
NameAPlusB ==
    <<"a","+","b">>
\* 'a_b'
NameAUnderB ==
    <<"a","_","b">>
\* '___'
NameUnderscores ==
    <<"_","_","_">>
\* '/r/a.py'
PathRA ==
    <<"/","r","/","a",".","p","y">>
\* '/r/b.py'
PathRB ==
    <<"/","r","/","b",".","p","y">>
\* '/r/lib/a.py'
PathRLibA ==
    <<"/","r","/","l","i","b","/","a",".","p","y">>
\* '/r/a.py:1-1'
OccRA ==
    <<"/","r","/","a",".","p","y",":","1","-","1">>
\* '/r/b.py:1-1'
OccRB ==
    <<"/","r","/","b",".","p","y",":","1","-","1">>
\* '/r/lib/a.py:3-3'
OccRLibA ==
    <<"/","r","/","l","i","b","/","a",".","p","y",":","3","-","3">>

\* what print writes for a sequence of lines
PrintText(lines) == Concat([k \in 1..Len(lines) |-> lines[k] \o <<"\n">>])

GroupHelper2 ==
    [name |-> NameHelper, hash |-> hash_block(<<Helper1>>),
     occurrences |-> <<[path |-> PathRA, start |-> 1, end |-> 1],
                       [path |-> PathRB, start |-> 1, end |-> 1]>>]
GroupHelper3 ==
    [name |-> NameHelper, hash |-> hash_block(<<Helper1>>),
     occurrences |-> <<[path |-> PathRA, start |-> 1, end |-> 1],
                       [path |-> PathRB, start |-> 1, end |-> 1],
                       [path |-> PathRLibA, start |-> 3, end |-> 3]>>]
GroupG ==
    [name |-> NameG, hash |-> hash_block(<<PyDefG>>),
     occurrences |-> <<[path |-> PathRB, start |-> 2, end |-> 2],
                       [path |-> PathRLibA, start |-> 1, end |-> 1]>>]
\* what dedupe.py prints for some tables of candidates
ScanOutput(cands) == PrintText(DuplicateLines(cands) \o <<SummaryLine(DupCount(cands))>>)
ScanOutputs ==
    {ScanOutput(c) : c \in {<<>>, <<GroupHelper2>>, <<GroupHelper3>>,
                            <<GroupHelper2, GroupG>>}}

\* paths with a space, a colon and dashes, and with a line break in a directory name;
\* lines that are no output of the scan, as stderr=subprocess.STDOUT mixes them in
\* '/r/my dir/a:1-2.py'
PathSpaced ==
    <<"/","r","/","m","y"," ","d","i","r","/","a",":","1","-","2",".","p","y">>
\* '/r/-d/-b.py'
PathDashed ==
    <<"/","r","/","-","d","/","-","b",".","p","y">>
\* '/r/x\ny/a.py'
PathLineBreak ==
    <<"/","r","/","x","\n","y","/","a",".","p","y">>
\* 'WARNING: slow disk'
NoisePlain ==
    <<"W","A","R","N","I","N","G",":"," ","s","l","o","w"," ","d","i","s","k">>
\* '- retrying'
NoiseDash ==
    <<"-"," ","r","e","t","r","y","i","n","g">>
\* 'Duplicate candidate: cache miss'
NoiseCandidate ==
    <<"D","u","p","l","i","c","a","t","e"," ","c","a","n","d","i","d","a","t","e",":",
      " ","c","a","c","h","e"," ","m","i","s","s">>

GroupSpaced ==
    [name |-> NameHelper, hash |-> hash_block(<<Helper1>>),
     occurrences |-> <<[path |-> PathSpaced, start |-> 1, end |-> 1],
                       [path |-> PathDashed, start |-> 10, end |-> 12]>>]
GroupLineBreak ==
    [name |-> NameHelper, hash |-> hash_block(<<Helper1>>),
     occurrences |-> <<[path |-> PathRA, start |-> 1, end |-> 1],
                       [path |-> PathLineBreak, start |-> 1, end |-> 1]>>]
\* the lines dedupe.py prints for a table of candidates, one per print call
ScanLinesOf(cands) == DuplicateLines(cands) \o <<SummaryLine(DupCount(cands))>>
\* a group of one occurrence, which the scan does not print
GroupOne ==
    [name |-> NameG, hash |-> hash_block(<<PyDefG>>),
     occurrences |-> <<[path |-> PathRB, start |-> 2, end |-> 2]>>]
CandidateTables ==
    {<<>>, <<GroupHelper2>>, <<GroupHelper3>>, <<GroupHelper2, GroupG>>, <<GroupSpaced>>,
     <<GroupOne, GroupSpaced>>, <<GroupLineBreak>>}
NoiseCatalog == {NoisePlain, NoiseDash, NoiseCandidate}
\* lines with one more line behind the first k of them
InsertAt(lines, k, line) == SubSeq(lines, 1, k) \o <<line>> \o From(lines, k + 1)
\* the child's output for a table of candidates, as printed (at = -1) or with one
\* noise line behind its first at lines
NoisyOutcomes ==
    UNION {{[kind |-> kd, output |-> ScanOutput(c), cands |-> c, noise |-> <<>>, at |-> -1]
               : kd \in {"exit0", "nonzero"}}
           \cup {[kind |-> kd, output |-> PrintText(InsertAt(ScanLinesOf(c), k, n)),
                   cands |-> c, noise |-> n, at |-> k]
                    : kd \in {"exit0", "nonzero"}, n \in NoiseCatalog,
                      k \in 0..Len(ScanLinesOf(c))}
           : c \in CandidateTables}

\* subprocess.check_output: the output when the child exits 0; CalledProcessError
\* carrying the output when it exits non-zero (a traceback, when dedupe.py raised);
\* OSError when the child cannot be started
Outcomes ==
    {[kind |-> "exit0", output |-> t] : t \in ScanOutputs}
    \cup {[kind |-> "nonzero", output |-> t] : t \in {TracebackText} \cup ScanOutputs}
    \cup {[kind |-> "oserror", output |-> <<>>]}

\* candidate lists for create_stubs called on its own
StubArgCatalog ==
    LET two   == <<OccRA, OccRB>>
        three == <<OccRA, OccRB, OccRLibA>>
    IN  { <<[function |-> NameHelper, occurrences |-> two]>>,
          <<[function |-> NameHelper, occurrences |-> three]>>,
          <<[function |-> NameHelper, occurrences |-> two],
            [function |-> NameG, occurrences |-> two]>>,
          <<[function |-> NameSymbols, occurrences |-> two]>>,
          <<[function |-> <<>>, occurrences |-> two]>>,
          <<[function |-> NameAPlusB, occurrences |-> two],
            [function |-> NameAUnderB, occurrences |-> three]>>,
          <<[function |-> NameAUnderB, occurrences |-> two],
            [function |-> NameSymbols, occurrences |-> three]>>,
          <<>> }

NoFiles == [f \in {} |-> <<>>]

OrchIdle ==
    /\ orch_outcome = [kind |-> "none", output |-> <<>>]
    /\ orch_text = <<>> /\ orch_candidates = <<>> /\ report_file = <<>>
    /\ stubs = NoFiles /\ stub_args = <<>> /\ orch_steps = <<>> /\ orch_runs = 0
    /\ orch_pc = "idle" /\ orch_exit = -1

OrchInit ==
    /\ orch_outcome \in Outcomes
    /\ orch_text = <<>> /\ orch_candidates = <<>> /\ report_file = <<>>
    /\ stubs = NoFiles /\ stub_args = <<>> /\ orch_steps = <<>> /\ orch_runs = 1
    /\ orch_pc = "run_dedupe" /\ orch_exit = -1

\* lines 18-27, 75: the child ran; its output is returned on either exit status
RunDedupe ==
    /\ orch_pc = "run_dedupe"
    /\ orch_outcome.kind \in {"exit0", "nonzero"}
    /\ orch_text' = orch_outcome.output
    /\ orch_steps' = Append(orch_steps, "run_dedupe")
    /\ orch_pc' = "parse_dedupe_output"
    /\ UNCHANGED <<orch_outcome, orch_candidates, report_file, stubs, stub_args, orch_runs,
                   orch_exit, sfVars, scanVars, planVars>>

\* lines 20-27: check_output raises OSError, which except CalledProcessError does
\* not catch; the exception leaves main and the interpreter exits with status 1
RunDedupeRaises ==
    /\ orch_pc = "run_dedupe"
    /\ orch_outcome.kind = "oserror"
    /\ orch_exit' = 1
    /\ orch_pc' = "done"
    /\ UNCHANGED <<orch_outcome, orch_text, orch_candidates, report_file, stubs, stub_args,
                   orch_steps, orch_runs, sfVars, scanVars, planVars>>

\* line 76
ParseOutput ==
    /\ orch_pc = "parse_dedupe_output"
    /\ orch_candidates' = parse_dedupe_output(orch_text)
    /\ orch_steps' = Append(orch_steps, "parse_dedupe_output")
    /\ orch_pc' = "write_report"
    /\ UNCHANGED <<orch_outcome, orch_text, report_file, stubs, stub_args, orch_runs,
                   orch_exit, sfVars, scanVars, planVars>>

\* lines 49-54, 77: the report is written over whatever was there
WriteReport ==
    /\ orch_pc = "write_report"
    /\ report_file' = json_dump(orch_candidates)
    /\ orch_steps' = Append(orch_steps, "write_report")
    /\ orch_pc' = "create_stubs"
    /\ UNCHANGED <<orch_outcome, orch_text, orch_candidates, stubs, stub_args, orch_runs,
                   orch_exit, sfVars, scanVars, planVars>>

\* lines 56-72, 78
CreateStubs ==
    /\ orch_pc = "create_stubs"
    /\ stubs' = create_stubs(stubs, orch_candidates)
    /\ stub_args' = orch_candidates
    /\ orch_steps' = Append(orch_steps, "create_stubs")
    /\ orch_pc' = "finish"
    /\ UNCHANGED <<orch_outcome, orch_text, orch_candidates, report_file, orch_runs,
                   orch_exit, sfVars, scanVars, planVars>>

\* lines 79-82: main returns and the script ends with status 0
FinishOrchestration ==
    /\ orch_pc = "finish"
    /\ orch_exit' = 0
    /\ orch_pc' = "done"
    /\ UNCHANGED <<orch_outcome, orch_text, orch_candidates, report_file, stubs, stub_args,
                   orch_steps, orch_runs, sfVars, scanVars, planVars>>

\* the script is run again, on the files the earlier run left
RunAgain ==
    /\ orch_pc = "done"
    /\ orch_runs < MaxRuns
    /\ orch_outcome' \in Outcomes
    /\ orch_text' = <<>> /\ orch_candidates' = <<>> /\ orch_steps' = <<>>
    /\ orch_runs' = orch_runs + 1
    /\ orch_pc' = "run_dedupe" /\ orch_exit' = -1
    /\ UNCHANGED <<report_file, stubs, stub_args, sfVars, scanVars, planVars>>

\* one run of auto_consolidate.py up to its report, on the output of a scan
ParseInit ==
    /\ orch_outcome \in NoisyOutcomes
    /\ orch_text = <<>> /\ orch_candidates = <<>> /\ report_file = <<>>
    /\ stubs = NoFiles /\ stub_args = <<>> /\ orch_steps = <<>> /\ orch_runs = 1
    /\ orch_pc = "run_dedupe" /\ orch_exit = -1

StubsInit ==
    /\ orch_outcome = [kind |-> "none", output |-> <<>>]
    /\ orch_text = <<>> /\ orch_candidates = <<>> /\ report_file = <<>>
    /\ stubs = NoFiles /\ stub_args = <<>> /\ orch_steps = <<>> /\ orch_runs = 0
    /\ orch_pc = "call" /\ orch_exit = -1

\* create_stubs(candidates), called on its own
CallCreateStubs ==
    /\ orch_pc = "call"
    /\ orch_runs < MaxRuns
    /\ \E cands \in StubArgCatalog :
          /\ stubs' = create_stubs(stubs, cands)
          /\ stub_args' = cands
    /\ orch_runs' = orch_runs + 1
    /\ UNCHANGED <<orch_outcome, orch_text, orch_candidates, report_file, orch_steps,
                   orch_pc, orch_exit, sfVars, scanVars, planVars>>

\* a stub is edited by hand between two calls
HandEdit ==
    /\ orch_pc = "call"
    /\ \E f \in DOMAIN stubs :
          /\ stubs[f] # EditedStub
          /\ stubs' = [stubs EXCEPT ![f] = EditedStub]
    /\ UNCHANGED <<orch_outcome, orch_text, orch_candidates, report_file, stub_args,
                   orch_steps, orch_runs, orch_pc, orch_exit, sfVars, scanVars, planVars>>

(***************************************************************************)
(* The three scripts on one tree: auto_consolidate.py runs dedupe.py as    *)
(* its child and leaves the report, which apply_consolidation.py reads.    *)
(* STUBS_DIR and REPORT_DIR are directories of the tree; a file that is in *)
(* STUBS_DIR before the run is a file of the tree like any other.          *)
(***************************************************************************)
\* the trees with files in the root alone
PipelineTrees ==
    {t \in Trees : \A d \in 1..Len(t) : t[d].files # <<>> => DirCatalog[d] = <<>>}
\* STUBS_DIR before the run: empty, or with a helper.py written by hand
StubsBefore == {NoFiles, [f \in {stub_py(NameHelper)} |-> EditedStub]}
\* the report before the run: none, or the one an earlier run left
StaleReport == json_dump(<<[function |-> NameG, occurrences |-> <<OccRA, OccRB>>]>>)

PipelineInit ==
    /\ tree \in PipelineTrees
    /\ walk_i = 1 /\ scanned = <<>> /\ candidates = <<>> /\ stdout = <<>>
    /\ dup_count = 0 /\ scan_pc = "walk" /\ scan_exit = -1
    /\ scan_runs = 1 /\ prev_candidates = <<>> /\ prev_stdout = <<>>
    /\ orch_outcome = [kind |-> "none", output |-> <<>>]
    /\ orch_text = <<>> /\ orch_candidates = <<>>
    /\ report_file \in {<<>>, StaleReport}
    /\ stubs \in StubsBefore
    /\ stub_args = <<>> /\ orch_steps = <<>> /\ orch_runs = 1
    /\ orch_pc = "wait" /\ orch_exit = -1
    /\ PlanIdle

\* auto_consolidate.py line 21: check_output waits for the child, dedupe.py, and
\* gets what it printed, or CalledProcessError with its traceback when it ended
\* with status 1
ChildExits ==
    /\ orch_pc = "wait"
    /\ scan_pc \in {"done", "crashed"}
    /\ orch_outcome' = IF scan_exit = 0
                       THEN [kind |-> "exit0", output |-> PrintText(stdout)]
                       ELSE [kind |-> "nonzero", output |-> TracebackText]
    /\ orch_pc' = "run_dedupe"
    /\ UNCHANGED <<orch_text, orch_candidates, report_file, stubs, stub_args, orch_steps,
                   orch_runs, orch_exit, sfVars, scanVars, planVars>>

\* apply_consolidation.py is started after auto_consolidate.py has ended; lines
\* 40-41 open the report that is there, if any is
StartPlan ==
    /\ orch_pc = "done"
    /\ plan_pc = "idle"
    /\ report_readable' = (report_file # <<>>)
    /\ report' = IF report_file # <<>> THEN json_load(report_file) ELSE <<>>
    /\ plan_pc' = "read"
    /\ UNCHANGED <<plan_candidates, plan_i, canonical, consolidation_plan, plan_stdout,
                   plan_exit, sfVars, scanVars, orchVars>>

(***************************************************************************)
(* Specifications.                                                         *)
(***************************************************************************)
\* scan_file on one file
InitScanFile == SFInit /\ ScanIdle /\ PlanIdle /\ OrchIdle
SpecScanFile == InitScanFile /\ [][ScanFile]_vars

\* scan_file called on one file, its loops step by step; a call that was made
\* takes its next step
InitScanLoop == SFIdle /\ ScanIdle /\ PlanIdle /\ OrchIdle
LoopStep == SkipLine \/ OpenBlock \/ GatherLine \/ CloseBlock \/ ReturnResults
NextScanLoop == CallScanFile \/ LoopStep
SpecScanLoop == InitScanLoop /\ [][NextScanLoop]_vars /\ WF_vars(LoopStep)

\* one run of dedupe.py over a tree
InitScan == ScanInit /\ SFIdle /\ PlanIdle /\ OrchIdle
NextScan == WalkDir \/ PrintDuplicates \/ ExitScan \/ ExitTraceback
SpecScan == InitScan /\ [][NextScan]_vars

\* runs of dedupe.py over one tree, one after the other
InitRescan == RescanInit /\ SFIdle /\ PlanIdle /\ OrchIdle
NextRescan == WalkDir \/ PrintDuplicates \/ ExitScan \/ ExitTraceback \/ ScanAgain
SpecRescan == InitRescan /\ [][NextRescan]_vars

\* one run of apply_consolidation.py on a report
InitPlan == PlanInit /\ SFIdle /\ ScanIdle /\ OrchIdle
NextPlan == ReadReport \/ ReadReportRaises \/ SkipRecord \/ WarnRecord \/ ClassifyRecord \/ PrintPlan
SpecPlan == InitPlan /\ [][NextPlan]_vars

\* runs of auto_consolidate.py, one after the other
InitOrchestrate == OrchInit /\ SFIdle /\ ScanIdle /\ PlanIdle
NextOrchestrate ==
    \/ RunDedupe \/ RunDedupeRaises \/ ParseOutput \/ WriteReport \/ CreateStubs
    \/ FinishOrchestration \/ RunAgain
SpecOrchestrate == InitOrchestrate /\ [][NextOrchestrate]_vars

\* run_dedupe, parse_dedupe_output and write_report on scan outputs with and
\* without noise lines
InitParse == ParseInit /\ SFIdle /\ ScanIdle /\ PlanIdle
NextParse == RunDedupe \/ ParseOutput \/ WriteReport
SpecParse == InitParse /\ [][NextParse]_vars

\* dedupe.py as the child of auto_consolidate.py, then apply_consolidation.py
InitPipeline == PipelineInit /\ SFIdle
NextPipeline ==
    \/ WalkDir \/ PrintDuplicates \/ ExitScan \/ ExitTraceback \/ ChildExits
    \/ RunDedupe \/ ParseOutput \/ WriteReport \/ CreateStubs \/ FinishOrchestration
    \/ StartPlan \/ ReadReport \/ ClassifyRecord \/ PrintPlan
SpecPipeline == InitPipeline /\ [][NextPipeline]_vars

\* calls of create_stubs, with hand edits of the stubs in between
InitStubs == StubsInit /\ SFIdle /\ ScanIdle /\ PlanIdle
NextStubs == CallCreateStubs \/ HandEdit
SpecStubs == InitStubs /\ [][NextStubs]_vars

(***************************************************************************)
(* dedupe.py main: grouping, reporting, exit status, the walk.             *)
(***************************************************************************)
Walked == scan_pc \in {"print", "exit", "done"}
Printed == scan_pc \in {"exit", "done"}

\* the files of the tree, as records [path, name, dir, readable, lines]
TreeFiles ==
    UNION {{[path  |-> join(tree[d].dirpath, tree[d].files[n].name),
             name  |-> tree[d].files[n].name,
             dir   |-> tree[d].dirpath,
             readable |-> tree[d].files[n].readable,
             lines |-> tree[d].files[n].lines] : n \in 1..Len(tree[d].files)}
           : d \in 1..Len(tree)}
LinesOf(path) == (CHOOSE f \in TreeFiles : f.path = path).lines

\* the blocks the scan extracted: <<group, position in the group>>
Blocks ==
    UNION {{<<g, k>> : k \in 1..Len(candidates[g].occurrences)} : g \in 1..Len(candidates)}
OccurrenceOf(b) == candidates[b[1]].occurrences[b[2]]
\* the lines of a block as they are in its file, and the name its first line declares
ContentOf(b) ==
    SubSeq(LinesOf(OccurrenceOf(b).path), OccurrenceOf(b).start, OccurrenceOf(b).end)
DeclaredNameOf(b) ==
    BlockStart(lower(splitext_ext(OccurrenceOf(b).path)),
               LinesOf(OccurrenceOf(b).path)[OccurrenceOf(b).start])

\* 'Duplicate candidate: helper (hash '
ExampleHeaderStart ==
    <<"D","u","p","l","i","c","a","t","e"," ","c","a","n","d","i","d","a","t","e",":",
      " ","h","e","l","p","e","r"," ","(","h","a","s","h"," ">>
\* '  - /r/a.py:1-1'
ExampleBulletA ==
    <<" "," ","-"," ","/","r","/","a",".","p","y",":","1","-","1">>
\* '  - /r/b.py:1-1'
ExampleBulletB ==
    <<" "," ","-"," ","/","r","/","b",".","p","y",":","1","-","1">>
\* 'Found 1 candidate duplicated functions. Review manually before merging.'
ExampleSummary ==
    <<"F","o","u","n","d"," ","1"," ","c","a","n","d","i","d","a","t","e"," ","d","u",
      "p","l","i","c","a","t","e","d"," ","f","u","n","c","t","i","o","n","s","."," ",
      "R","e","v","i","e","w"," ","m","a","n","u","a","l","l","y"," ","b","e","f","o",
      "r","e"," ","m","e","r","g","i","n","g",".">>

\* a.py and b.py hold 'def helper(): return 1', c.py holds 'def helper(): return 2'
ExampleTree == TreeOf([k \in 1..Len(Slots) |-> IF k \in {1, 2} THEN 1 ELSE IF k = 3 THEN 2 ELSE 0])

IsHeaderLine(line) == startswith(line, MsgDuplicateCandidate)
IsBulletLine(line) == startswith(line, MsgBullet)
HeaderOf(g) == MsgDuplicateCandidate \o g.name \o MsgHash \o g.hash \o MsgFoundIn
StdoutLines == {stdout[i] : i \in 1..Len(stdout)}

\* C2: a group of one occurrence is never printed as a duplicate candidate, every
\* printed candidate lists at least two occurrences, and when no group has two
\* the output is the 'no duplicates' message alone.
C2_OnlyGroupsOfTwoOrMore ==
    Printed =>
        /\ \A i \in 1..Len(stdout) :
              IsHeaderLine(stdout[i]) =>
                  /\ i + 2 <= Len(stdout)
                  /\ IsBulletLine(stdout[i + 1])
                  /\ IsBulletLine(stdout[i + 2])
        /\ \A g \in 1..Len(candidates) :
              Len(candidates[g].occurrences) = 1 => HeaderOf(candidates[g]) \notin StdoutLines
        /\ \A g \in 1..Len(candidates) :
              Len(candidates[g].occurrences) >= 2 => HeaderOf(candidates[g]) \in StdoutLines
        /\ (\A g \in 1..Len(candidates) : Len(candidates[g].occurrences) < 2)
              <=> stdout = <<MsgNoDuplicates>>
        /\ (\E g \in 1..Len(candidates) : Len(candidates[g].occurrences) >= 2)
              => MsgNoDuplicates \notin StdoutLines

\* a scan that found groups of one occurrence and no other, and one that found both
\* a group of one and a group of two
C2_WitnessNone ==
    /\ Printed
    /\ Len(candidates) >= 2
    /\ \A g \in 1..Len(candidates) : Len(candidates[g].occurrences) = 1
C2_Witness ==
    /\ Printed
    /\ \E g \in 1..Len(candidates) : Len(candidates[g].occurrences) = 1
    /\ \E g \in 1..Len(candidates) : Len(candidates[g].occurrences) >= 2

\* C8: the exit status of the scan is non-zero exactly when a group of two or more
\* occurrences was found.
C8_ExitStatusTellsDuplicates ==
    scan_pc = "done" =>
        ((scan_exit # 0) <=> (\E g \in 1..Len(candidates) : Len(candidates[g].occurrences) >= 2))

\* the names line 70 is written to skip
ExcludedDirNames == {Tail(SkipGit), Tail(SkipNodeModules), Tail(SkipVenv), Tail(SkipPycache)}
DirComponents(dirpath) == {split(dirpath, "/")[k] : k \in 1..Len(split(dirpath, "/"))}
Scanned == {scanned[k] : k \in 1..Len(scanned)}

\* C10: a file is scanned exactly when its extension is supported and no component
\* of its directory path is one of the excluded names.
C10_ExcludedByExactName ==
    Walked =>
        \A f \in TreeFiles :
            (f.path \in Scanned) <=>
                (IsCandidateFile(f.name) /\ DirComponents(f.dir) \cap ExcludedDirNames = {})

(***************************************************************************)
(* dedupe.py main: files that cannot be read.                              *)
(***************************************************************************)
ScanEnded == scan_pc \in {"done", "crashed"}
\* the files line 73 lets through in the directories line 70 lets through
WalkCandidates == {f \in TreeFiles : IsCandidateFile(f.name) /\ ~SkipDir(f.dir)}

\* C11: a file that cannot be read does not abort the walk: when the scan has
\* ended, every readable candidate file was scanned and the output, up to its
\* summary line, was printed.
C11_UnreadableFileIsSkipped ==
    ScanEnded =>
        /\ \A f \in WalkCandidates : f.readable => f.path \in Scanned
        /\ stdout # <<>>
        /\ stdout[Len(stdout)] = SummaryLine(dup_count)

\* what the scan does instead: it ends at the first unreadable candidate file with
\* status 1 and an empty stdout, the candidate files after it unopened
UnreadableFileAbortsTheScan ==
    (ScanEnded /\ \E f \in WalkCandidates : ~f.readable) =>
        /\ scan_pc = "crashed"
        /\ scan_exit = 1
        /\ stdout = <<>>
        /\ \E k \in 1..Len(scanned) :
              /\ ~(CHOOSE f \in TreeFiles : f.path = scanned[k]).readable
              /\ k = Len(scanned)

(***************************************************************************)
(* dedupe.py main: the order of the groups and of their occurrences.       *)
(***************************************************************************)
\* where in the walk the block of an occurrence was found: the position of its
\* file among the files scanned, then its first line
FoundBefore(o1, o2) ==
    LET At(o) == CHOOSE k \in 1..Len(scanned) : scanned[k] = o.path
    IN  At(o1) < At(o2) \/ (At(o1) = At(o2) /\ o1.start < o2.start)
\* the groups that are printed, in the order of the table
DuplicateGroups == SelectSeq(candidates, LAMBDA g : IsDuplicate(g.occurrences))
\* the line numbers of stdout that hold the header of a group
HeaderLineNumbers == SelectSeq([i \in 1..Len(stdout) |-> i], LAMBDA i : IsHeaderLine(stdout[i]))

Depth(occ) == Len(split(occ, "/")) - 1
\* c is the first of occs among those of the least depth
FirstShallowest(occs, c) ==
    \E i \in 1..Len(occs) :
        /\ occs[i] = c
        /\ \A k \in 1..Len(occs) : Depth(occs[k]) >= Depth(occs[i])
        /\ \A k \in 1..(i - 1) : Depth(occs[k]) > Depth(occs[i])
PlanEntries ==
    UNION {{consolidation_plan[n].funcs[k] : k \in 1..Len(consolidation_plan[n].funcs)}
           : n \in 1..Len(consolidation_plan)}
\* the non-empty slices of the first record's occurrence list
ReportSlices ==
    IF report = <<>> THEN {}
    ELSE {SubSeq(report[1].occurrences, a, b) :
             a \in 1..Len(report[1].occurrences), b \in 1..Len(report[1].occurrences)}
         \ {<<>>}

\* C4: the canonical occurrence is one of the least number of path separators,
\* and the first such in the order of the list; of apps/x/a.py:1-5,
\* packages/y/a.py:1-5, a.py:1-5 it is a.py:1-5.
C4_CanonicalIsFirstShallowest ==
    /\ \A e \in PlanEntries : FirstShallowest(e.occurrences, e.canonical)
    /\ plan_pc \in {"loop", "done"} /\ plan_i > 1
       /\ Len(plan_candidates[plan_i - 1].occurrences) >= 2
          => FirstShallowest(plan_candidates[plan_i - 1].occurrences, canonical)
    /\ \A occs \in ReportSlices : FirstShallowest(occs, determine_canonical_path(occs))
    /\ plan_i > 1 /\ plan_candidates[1].occurrences = <<OccApps, OccPackages, OccRoot>>
          => /\ plan_i = 2 => canonical = OccRoot
             /\ \E e \in PlanEntries : e.function = NameHelper /\ e.canonical = OccRoot

\* the canonical occurrence was chosen among two of the least depth, after a deeper one
C4_Witness ==
    /\ plan_i = 2
    /\ plan_candidates[1].occurrences = <<OccApps, OccJs, OccRoot>>
    /\ canonical = OccJs
    /\ \E e \in PlanEntries : e.canonical = OccJs

\* the path of an occurrence: what is before its last colon
PathOfOccurrence(occ) ==
    LET at == {i \in 1..Len(occ) : occ[i] = ":"}
    IN  SubSeq(occ, 1, (CHOOSE i \in at : \A k \in at : k <= i) - 1)
\* the label the claim gives a path
LabelOfPath(path) ==
    IF splitext_ext(path) = EXT_py THEN PkgSharedPython
    ELSE IF splitext_ext(path) \in {EXT_ts, EXT_tsx, EXT_js, EXT_jsx}
    THEN IF \E i \in 1..Len(path) : startswith(lower(From(path, i)), StrComponent)
         THEN PkgSharedUi
         ELSE PkgSharedUtils
    ELSE PkgSharedUtils
\* the records the loop has classified so far
ClassifiedRecords ==
    {i \in 1..(plan_i - 1) :
        /\ Len(plan_candidates[i].occurrences) >= 2
        /\ \E c \in 1..Len(determine_canonical_path(plan_candidates[i].occurrences)) :
              determine_canonical_path(plan_candidates[i].occurrences)[c] = ":"}

\* C5: the label an entry is filed under is decided by the path of its canonical
\* occurrence alone: .py gives shared-python; .ts/.tsx/.js/.jsx give shared-ui
\* when the lowercased path contains "component" and shared-utils otherwise; any
\* other extension gives the fallback shared-utils.  Each classified record is
\* filed once, under one label.
C5_LabelFromCanonicalPath ==
    /\ \A n \in 1..Len(consolidation_plan) :
          \A k \in 1..Len(consolidation_plan[n].funcs) :
              consolidation_plan[n].pkg =
                  LabelOfPath(PathOfOccurrence(consolidation_plan[n].funcs[k].canonical))
    /\ \A n \in 1..Len(consolidation_plan) : \A m \in 1..Len(consolidation_plan) :
          consolidation_plan[n].pkg = consolidation_plan[m].pkg => n = m
    /\ plan_pc \in {"loop", "done"} =>
          /\ SumLen(consolidation_plan) = Cardinality(ClassifiedRecords)
          /\ \A i \in ClassifiedRecords :
                Cardinality({<<n, k>> \in (1..Len(consolidation_plan)) \X (1..2) :
                                /\ k <= Len(consolidation_plan[n].funcs)
                                /\ consolidation_plan[n].funcs[k].function
                                      = plan_candidates[i].function}) = 1

\* a .tsx path with "Component" in it was filed under shared-ui and a .py path
\* under shared-python
C5_Witness ==
    /\ plan_pc = "done"
    /\ \E n \in 1..Len(consolidation_plan) :
          /\ consolidation_plan[n].pkg = PkgSharedUi
          /\ consolidation_plan[n].funcs[1].canonical = OccComponent
    /\ \E n \in 1..Len(consolidation_plan) : consolidation_plan[n].pkg = PkgSharedPython

\* a path of another extension was filed under the fallback label
C5_WitnessFallback ==
    /\ plan_pc = "done"
    /\ \E n \in 1..Len(consolidation_plan) :
          /\ consolidation_plan[n].pkg = PkgSharedUtils
          /\ consolidation_plan[n].funcs[1].canonical = OccTxt

(***************************************************************************)
(* apply_consolidation.py: input errors.                                   *)
(***************************************************************************)
PlanEnded == plan_pc \in {"done", "crashed"}
Malformed(occ) == parse_occurrence(occ) = NoOccurrence
\* the records of the report with an occurrence string that is not <path>:<start>-<end>
RecordsWithMalformed ==
    {i \in 1..Len(report) :
        \E k \in 1..Len(report[i].occurrences) : Malformed(report[i].occurrences[k])}
\* the records the loop passes over at line 61
SkippedForMalformed ==
    {i \in 1..Len(report) :
        /\ Len(report[i].occurrences) >= 2
        /\ Malformed(determine_canonical_path(report[i].occurrences))}
PlanWarnings == {n \in 1..Len(plan_stdout) : startswith(plan_stdout[n], MsgWarning)}
\* a printed warning that holds the record's function name or its malformed occurrence
WarningNames(i) ==
    \E n \in PlanWarnings :
        \/ Contains(plan_stdout[n], report[i].function)
        \/ \E k \in 1..Len(report[i].occurrences) :
              /\ Malformed(report[i].occurrences[k])
              /\ Contains(plan_stdout[n], report[i].occurrences[k])

\* C12: the plan command ends with a non-zero exit status when the report cannot
\* be read and when a record holds a malformed occurrence string, and every record
\* skipped for a malformed occurrence has a warning that names it.
C12_InputErrorsAreSurfaced ==
    PlanEnded =>
        /\ ~report_readable => plan_exit # 0
        /\ RecordsWithMalformed # {} => plan_exit # 0
        /\ \A i \in SkippedForMalformed : WarningNames(i)

\* what the plan command does instead: an unreadable report ends it with status 1
\* after the 'Reading' line; a readable one always ends it with status 0, with one
\* warning per record whose canonical occurrence is malformed, that record being
\* left out of the plan, and no warning for any other malformed occurrence
MalformedIsWarnedNotFatal ==
    PlanEnded =>
        /\ ~report_readable =>
              plan_pc = "crashed" /\ plan_exit = 1 /\ plan_stdout = <<MsgReading \o ReportPath>>
        /\ report_readable =>
              /\ plan_pc = "done" /\ plan_exit = 0
              /\ Cardinality(PlanWarnings) = Cardinality(SkippedForMalformed)
              /\ \A i \in SkippedForMalformed :
                    /\ WarningNames(i)
                    /\ \A e \in PlanEntries : e.function # report[i].function

(***************************************************************************)
(* apply_consolidation.py: the printed plan and its count.                 *)
(***************************************************************************)
\* the lines of the plan that list an entry, and those that list record i
ItemLines == {n \in 1..Len(plan_stdout) : startswith(plan_stdout[n], MsgItem)}
ListedLines(i) ==
    {n \in ItemLines : startswith(plan_stdout[n], MsgItem \o report[i].function \o MsgFrom)}
\* the package line an item line is under: the last line above it that is no item
\* line and no 'Found in' line
LabelAbove(n) ==
    LET above == {m \in 1..(n - 1) : /\ m \notin ItemLines
                                     /\ ~startswith(plan_stdout[m], MsgFoundInN)}
    IN  plan_stdout[CHOOSE m \in above : \A k \in above : k <= m]
PackageLabelLines == {<<"\n">> \o pkg \o <<":">> : pkg \in {PkgSharedUi, PkgSharedUtils, PkgSharedPython}}
\* the line that reports the count n
CountLine(n) == <<"\n", CheckMark>> \o MsgComplete \o str(n) \o MsgToConsolidate
\* record i is listed once, under a package label
ListedOnce(i) ==
    /\ Cardinality(ListedLines(i)) = 1
    /\ \A n \in ListedLines(i) : LabelAbove(n) \in PackageLabelLines
\* the count that is reported is the number of entries listed, and the status is 0
CountAndStatus ==
    /\ Cardinality({n \in 1..Len(plan_stdout) : plan_stdout[n] = CountLine(Cardinality(ItemLines))}) = 1
    /\ plan_exit = 0

C17_WitnessLeftOut ==
    /\ plan_pc = "done"
    /\ Len(report) = 2
    /\ Len(report[1].occurrences) \in {1, 3}
    /\ ListedLines(1) = {}
    /\ ListedOnce(2)
    /\ CountLine(1) \in {plan_stdout[n] : n \in 1..Len(plan_stdout)}
\* the empty report: the count 0 is reported and the status is 0
C17_WitnessZero ==
    /\ plan_pc = "done"
    /\ report = <<>>
    /\ CountLine(0) \in {plan_stdout[n] : n \in 1..Len(plan_stdout)}
    /\ plan_exit = 0

(***************************************************************************)
(* auto_consolidate.py: stubs, sanitized names, the outcome of the scan.   *)
(***************************************************************************)
StubFilesOf(cands) == {stub_py(cands[k].function) : k \in 1..Len(cands)}

\* C6: a call of create_stubs leaves every stub that exists as it is, whatever the
\* candidates now list and whoever wrote the stub, and adds a stub exactly for the
\* identifiers of its candidates that had none; so the first call leaves one stub
\* per distinct identifier.
C6_ExistingStubsAreKept ==
    [][orch_runs' = orch_runs + 1 =>
          /\ \A f \in DOMAIN stubs : f \in DOMAIN stubs' /\ stubs'[f] = stubs[f]
          /\ DOMAIN stubs' = DOMAIN stubs \cup StubFilesOf(stub_args')
          /\ \A f \in DOMAIN stubs' \ DOMAIN stubs :
                \E k \in 1..Len(stub_args') :
                    /\ stub_py(stub_args'[k].function) = f
                    /\ startswith(stubs'[f], StubHeader \o stub_args'[k].function \o <<"\n">>)
          /\ orch_runs = 0 => DOMAIN stubs' = StubFilesOf(stub_args')]_vars

\* the stub of helper still lists two occurrences after a second call that gave three
C6_Witness ==
    /\ orch_runs = 2
    /\ stub_args = <<[function |-> NameHelper, occurrences |-> <<OccRA, OccRB, OccRLibA>>]>>
    /\ stub_py(NameHelper) \in DOMAIN stubs
    /\ stubs[stub_py(NameHelper)]
          = StubText([function |-> NameHelper, occurrences |-> <<OccRA, OccRB>>])

\* a stub edited by hand is as edited after a later call for the same function
C6_WitnessEdited ==
    /\ orch_runs = 2
    /\ stub_args = <<[function |-> NameHelper, occurrences |-> <<OccRA, OccRB, OccRLibA>>]>>
    /\ stub_py(NameHelper) \in DOMAIN stubs
    /\ stubs[stub_py(NameHelper)] = EditedStub

IsSymbolsOnly(name) == \A i \in 1..Len(name) : ~IsAlnum(name[i]) /\ name[i] # "_"
IsIdentifier(s) == s # <<>> /\ \A i \in 1..Len(s) : IsAlnum(s[i]) \/ s[i] = "_"

\* C7: a declared name made of symbols only gets the placeholder identifier fn,
\* and every identifier is non-empty and made of alphanumerics and underscores.
C7_SymbolsOnlyGetPlaceholder ==
    \A k \in 1..Len(stub_args) :
        /\ IsIdentifier(safe_name(stub_args[k].function))
        /\ IsSymbolsOnly(stub_args[k].function) =>
              /\ safe_name(stub_args[k].function) = StrFn
              /\ (StrFn \o EXT_py) \in DOMAIN stubs

\* what does hold of line 60: the identifier is well formed, has the length of
\* the name, and is fn for the empty name alone
SafeNameShape ==
    \A k \in 1..Len(stub_args) :
        LET name == stub_args[k].function
        IN  /\ IsIdentifier(safe_name(name))
            /\ name # <<>> => Len(safe_name(name)) = Len(name)
            /\ name = <<>> => safe_name(name) = StrFn
            /\ stub_py(name) \in DOMAIN stubs

\* C9: whatever the outcome of the scan step, the run captures its output, parses
\* it, writes the report and creates the stubs, in that order, and ends with
\* status 0.
C9_EveryOutcomeCompletes ==
    orch_pc = "done" =>
        /\ orch_exit = 0
        /\ orch_steps = <<"run_dedupe", "parse_dedupe_output", "write_report", "create_stubs">>
        /\ orch_text = orch_outcome.output
        /\ report_file = json_dump(parse_dedupe_output(orch_outcome.output))
        /\ stub_args = json_load(report_file)

\* what does hold: a run whose child process ran, with either exit status, completes
ExitStatusesComplete ==
    orch_pc = "done" /\ orch_outcome.kind \in {"exit0", "nonzero"} =>
        /\ orch_exit = 0
        /\ orch_steps = <<"run_dedupe", "parse_dedupe_output", "write_report", "create_stubs">>
        /\ orch_text = orch_outcome.output
        /\ report_file = json_dump(parse_dedupe_output(orch_outcome.output))
        /\ stub_args = json_load(report_file)

(***************************************************************************)
(* auto_consolidate.py: parsing the output of the scan; the round trip of  *)
(* the occurrences through the output, the report and parse_occurrence.    *)
(***************************************************************************)
ParsedOutput == orch_pc \in {"write_report", "create_stubs"}
ReportWritten == orch_pc = "create_stubs"
TextLines == splitlines(orch_text)
\* 'Duplicate candidate: <name> (hash <digest>) found in:' and the <name> in it
HeaderRest(line) == From(line, Len(MsgDuplicateCandidate) + 1)
HeaderName(line) ==
    SubSeq(HeaderRest(line), 1, SkipWhile(HeaderRest(line), 1, WordChars) - 1)
IsScanHeader(line) ==
    LET rest   == HeaderRest(line)
        e      == SkipWhile(rest, 1, WordChars)
        digest == From(rest, e + Len(MsgHash))
        h      == SkipWhile(digest, 1, Range(HexDigits))
    IN  /\ startswith(line, MsgDuplicateCandidate)
        /\ e > 1
        /\ startswith(From(rest, e), MsgHash)
        /\ h > 1
        /\ From(digest, h) = MsgFoundIn
\* '  - <path>:<start>-<end>' and the occurrence string in it
BulletOccurrence(line) == From(line, Len(MsgBullet) + 1)
IsScanBullet(line) == startswith(line, MsgBullet) /\ ~Malformed(BulletOccurrence(line))

\* the scan printed each of its lines on one line: no path holds a line break
OneLinePaths ==
    \A g \in 1..Len(orch_outcome.cands) :
        \A k \in 1..Len(orch_outcome.cands[g].occurrences) :
            splitlines(orch_outcome.cands[g].occurrences[k].path)
                = <<orch_outcome.cands[g].occurrences[k].path>>

\* C13: noise lines change nothing: the candidates parsed from the output with its
\* noise are those parsed from the output without it, every record comes from a
\* line 'Duplicate candidate: <name> (hash <digest>) found in:' and every
\* occurrence from a line '  - <path>:<start>-<end>'.
C13_NoiseIsNeverParsed ==
    ParsedOutput /\ OneLinePaths =>
        /\ orch_candidates = parse_dedupe_output(ScanOutput(orch_outcome.cands))
        /\ \A g \in 1..Len(orch_candidates) :
              /\ \E i \in 1..Len(TextLines) :
                    /\ IsScanHeader(TextLines[i])
                    /\ HeaderName(TextLines[i]) = orch_candidates[g].function
              /\ \A k \in 1..Len(orch_candidates[g].occurrences) :
                    \E i \in 1..Len(TextLines) :
                        /\ IsScanBullet(TextLines[i])
                        /\ BulletOccurrence(TextLines[i]) = orch_candidates[g].occurrences[k]

\* the noise lines the parser does pass over: those that do not start with
\* 'Duplicate candidate:', and either start with '-' and follow neither a header
\* nor a bullet, or do not start with '-' and are not followed by a bullet
HarmlessNoise ==
    LET ls == ScanLinesOf(orch_outcome.cands)
        k  == orch_outcome.at
        n  == strip(orch_outcome.noise)
    IN  \/ k = -1
        \/ /\ ~startswith(n, PrefixDuplicateCandidate)
           /\ startswith(n, <<"-">>) =>
                 k = 0 \/ ~(IsHeaderLine(ls[k]) \/ IsBulletLine(ls[k]))
           /\ ~startswith(n, <<"-">>) =>
                 k = Len(ls) \/ ~IsBulletLine(ls[k + 1])

\* what holds: harmless noise changes nothing
HarmlessNoiseIsIgnored ==
    ParsedOutput /\ HarmlessNoise =>
        orch_candidates = parse_dedupe_output(ScanOutput(orch_outcome.cands))

\* the groups the scan printed, and the string it printed for an occurrence
PrintedGroups == SelectSeq(orch_outcome.cands, LAMBDA g : IsDuplicate(g.occurrences))
OccurrenceString(o) == o.path \o <<":">> \o str(o.start) \o <<"-">> \o str(o.end)
\* the records parsed from the output are the printed groups, the report read back
\* holds the same records, and each occurrence string parses to its triple
RoundTrip ==
    /\ Len(orch_candidates) = Len(PrintedGroups)
    /\ \A g \in 1..Len(PrintedGroups) :
          /\ orch_candidates[g].function = PrintedGroups[g].name
          /\ Len(orch_candidates[g].occurrences) = Len(PrintedGroups[g].occurrences)
          /\ \A k \in 1..Len(PrintedGroups[g].occurrences) :
                orch_candidates[g].occurrences[k]
                    = OccurrenceString(PrintedGroups[g].occurrences[k])
    /\ json_load(report_file) = orch_candidates
    /\ \A g \in 1..Len(PrintedGroups) :
          \A k \in 1..Len(PrintedGroups[g].occurrences) :
              parse_occurrence(json_load(report_file)[g].occurrences[k])
                  = [filepath |-> PrintedGroups[g].occurrences[k].path,
                     start    |-> PrintedGroups[g].occurrences[k].start,
                     end      |-> PrintedGroups[g].occurrences[k].end]

\* C14: every group the scan prints comes back from parse_dedupe_output as one
\* record with the same name and the same occurrence strings in the same order,
\* the report read back holds these records, and parse_occurrence gives back each
\* (path, start, end).
C14_OccurrencesRoundTrip ==
    ReportWritten /\ orch_outcome.at = -1 => RoundTrip

\* what holds: the round trip of the groups whose paths hold no line break
OneLinePathsRoundTrip ==
    ReportWritten /\ orch_outcome.at = -1 /\ OneLinePaths => RoundTrip

C16_WitnessCreated ==
    /\ plan_pc = "done"
    /\ orch_pc = "done"
    /\ stub_py(NameHelper) \in DOMAIN stubs
    /\ stubs[stub_py(NameHelper)] # EditedStub

(***************************************************************************)
(* scan_file: where a block starts and ends.                               *)
(***************************************************************************)
sf_ext == lower(splitext_ext(sf_path))
\* ^class\s+ on the stripped line
ClassStart(line) == AfterKeyword(strip(line), 1, KW_class) # 0
StartsConstruct(line) == BlockStart(sf_ext, line) # <<>> \/ ClassStart(line)
\* the lines on which the scan of a block stops, spelled out per language
EndsBlock(line) ==
    IF sf_ext = EXT_py THEN PyBlockEnd(strip(line)) ELSE JsBlockEnd(strip(line))

StubCandidates ==
    UNION {{cands[k] : k \in 1..Len(cands)} : cands \in StubArgCatalog}

\* a comment line that holds the occurrence and nothing else
IsCommentLineOf(line, occ) ==
    /\ startswith(line, <<"#">>)
    /\ strip(From(line, 2)) = occ

\* the layout of the claim: the header line, then a run of comment lines, one for
\* each occurrence in order, then the placeholder definition, whose last line raises
LayoutAsClaimed(text, c) ==
    LET ls == splitlines(text)
        n  == Len(c.occurrences)
    IN  \E first \in 2..Len(ls) : \E d \in 2..Len(ls) :
            /\ ls[1] = StubHeader \o c.function
            /\ first + n <= d
            /\ \A k \in 1..n : IsCommentLineOf(ls[first + k - 1], c.occurrences[k])
            /\ ls[d] \o <<"\n">> = StubDef \o safe_name(c.function) \o StubArgs
            /\ d < Len(ls)
            /\ ls[Len(ls)] \o <<"\n">> = StubRaise

\* the layout lines 64-71 give: the label of line 65 has no line end, so the
\* comment of the first occurrence is the rest of the label's line
LayoutAsWritten(text, c) ==
    LET ls == splitlines(text)
        n  == Len(c.occurrences)
    IN  /\ Len(ls) = (IF n = 0 THEN 1 ELSE n) + 5
        /\ ls[1] = StubHeader \o c.function
        /\ n = 0 => ls[2] = StubReview
        /\ n > 0 => ls[2] = StubReview \o StubOccPrefix \o c.occurrences[1]
        /\ \A k \in 2..n : ls[k + 1] = StubOccPrefix \o c.occurrences[k]
        /\ n > 0 => ls[n + 2] = <<>>
        /\ ls[Len(ls) - 2] \o <<"\n">> = StubDef \o safe_name(c.function) \o StubArgs
        /\ ls[Len(ls) - 1] \o <<"\n">> = StubDoc
        /\ ls[Len(ls)] \o <<"\n">> = StubRaise

\* a stub that create_stubs wrote and nobody edited
WrittenStubs == {f \in DOMAIN stubs : stubs[f] # EditedStub}

\* C18: every stub that create_stubs writes holds, in order, a header comment line
\* naming the declared name, one separate comment line per occurrence of the
\* candidate, and a placeholder definition named by the identifier whose body raises.
C18_StubHoldsOneLinePerOccurrence ==
    \A f \in WrittenStubs :
        \E c \in StubCandidates :
            stub_py(c.function) = f /\ LayoutAsClaimed(stubs[f], c)

\* what does hold: the header line and the placeholder definition are as stated, and
\* every occurrence but the first has a comment line of its own; the first one
\* shares the line of the label '# Review occurrences:'
StubIsAsWritten ==
    \A f \in WrittenStubs :
        \E c \in StubCandidates :
            /\ stub_py(c.function) = f
            /\ stubs[f] = StubText(c)
            /\ LayoutAsWritten(stubs[f], c)
            /\ Len(c.occurrences) > 0 =>
                  ~IsCommentLineOf(splitlines(stubs[f])[2], c.occurrences[1])

(***************************************************************************)
(* dedupe.py: the line ranges of the blocks of one file.                   *)
(***************************************************************************)
\* every range found so far lies in the file and is not empty
RangesInFile ==
    \A k \in 1..Len(sf_results) :
        /\ 1 <= sf_results[k].start
        /\ sf_results[k].start <= sf_results[k].end
        /\ sf_results[k].end <= Len(sf_lines)

\* each block ends before the next one starts
RangesAscend ==
    \A k \in 1..(Len(sf_results) - 1) : sf_results[k].end < sf_results[k + 1].start

\* no line belongs to two blocks
RangesDisjoint ==
    \A k, m \in 1..Len(sf_results) :
        k # m => (sf_results[k].start..sf_results[k].end)
                     \cap (sf_results[m].start..sf_results[m].end) = {}

\* C19: for every file content scan_file returns, and the blocks it returns have
\* line ranges within 1..number of lines with start <= end, in strictly ascending
\* order and pairwise disjoint; a block never holds the start line of the next one.
C19_ScanEndsWithDisjointBlocks ==
    /\ [](RangesInFile /\ RangesAscend /\ RangesDisjoint)
    /\ (sf_pc # "idle") ~> (sf_pc = "returned")

\* two blocks were returned, the first of more than one line
C19_Witness ==
    /\ sf_pc = "returned"
    /\ Len(sf_results) = 2
    /\ sf_results[1].start < sf_results[1].end
    /\ sf_results[2].start = sf_results[1].end + 1

\* the loops stepped one iteration at a time return what scan_file returns
LoopComputesScanFile ==
    sf_pc = "returned" => sf_results = scan_file(sf_path, sf_lines)

\* the indices of the loops: i < j <= len(lines) while a block is gathered,
\* i <= len(lines) otherwise, and every block found ends at or before i
LoopIndices ==
    /\ sf_i \in 0..Len(sf_lines) /\ sf_j \in 0..Len(sf_lines)
    /\ sf_pc = "gather" => sf_i < sf_j
    /\ \A k \in 1..Len(sf_results) : sf_results[k].end <= sf_i

====
